---- MODULE Spec2Model ----
(***************************************************************************)
(* corev-cli: the addressing layer (getConfigPath, parseFilename), the     *)
(* schema validator (validateConfig), the local store (loadConfig,         *)
(* saveConfig), the endpoint settings (.corevrc.json) and the commands     *)
(* init, pull, push, checkout and revert, as one state machine.            *)
(*                                                                         *)
(* A JavaScript string is a sequence of one-character strings, so that     *)
(* the filename regular expression, path.join's normalisation, trim() and  *)
(* the template literals are computed and not assumed.                     *)
(***************************************************************************)
EXTENDS Integers, Sequences, FiniteSets, TLC

VARIABLES
    fs,         \* the files: path -> text
    dirs,       \* the directories that exist
    pc,         \* where the running command is: idle, await_get, gate, await_post, done
    inv,        \* the running (or last) command: arguments and locals kept across awaits
    requests,   \* the HTTP requests the command has issued, in order
    responses,  \* how each of them ended, in order
    reports,    \* what the command has printed, in order
    exitCode,   \* the exit status of the process (-1 while it runs)
    validated,  \* the result of the command's validateConfig call: none, valid, invalid
    nOps,       \* the commands started so far
    call,       \* a function of the library applied on its own: its name and arguments
    ret         \* the value that application returned

vars == <<fs, dirs, pc, inv, requests, responses, reports, exitCode, validated, nOps,
          call, ret>>

(***************************************************************************)
(* Bounds of the model.                                                    *)
(***************************************************************************)
\* number of CLI invocations in one behaviour
MaxOps == 2

\* length of the project and version strings the library functions are applied to
MaxNameLen == 2

(***************************************************************************)
(* String literals of the source, as character sequences.                  *)
(***************************************************************************)
S_configs == <<"c", "o", "n", "f", "i", "g", "s">>
S_env == <<"e", "n", "v">>
S_dotjson == <<".", "j", "s", "o", "n">>
S_rc == <<".", "c", "o", "r", "e", "v", "r", "c">> \o S_dotjson
S_latest == <<"l", "a", "t", "e", "s", "t">>
S_undefined == <<"u", "n", "d", "e", "f", "i", "n", "e", "d">>
S_objectObject == <<"[", "o", "b", "j", "e", "c", "t", " ", "O", "b", "j", "e", "c", "t", "]">>
S_push == <<"p", "u", "s", "h">>
S_revert == <<"r", "e", "v", "e", "r", "t">>
S_y == <<"y">>

\* the absent option / the empty string: both are falsy in `env ? ... : ...`
NoEnv == <<>>

(***************************************************************************)
(* JSON values.  A JSON object is a function from keys to values; a key    *)
(* whose value is undefined is not in the domain (JSON.stringify drops     *)
(* it).  The text of a number and the identity of an object are kept in v. *)
(***************************************************************************)
Str(s) == [t |-> "string", v |-> s]
Num(s) == [t |-> "number", v |-> s]
Obj(s) == [t |-> "object", v |-> s]
EmptyObj == [k \in {} |-> Str(<<>>)]

\* obj.key, with Undefined for a missing key
Undefined == [t |-> "undefined", v |-> <<>>]
Get(obj, key) == IF key \in DOMAIN obj THEN obj[key] ELSE Undefined

\* `${value}` in a template literal
TemplateString(val) ==
    CASE val.t = "string" -> val.v
      [] val.t = "number" -> val.v
      [] val.t = "undefined" -> S_undefined
      [] OTHER -> S_objectObject

\* the text of a file: JSON text of an object, or text JSON.parse rejects
JsonText(obj) == [json |-> TRUE, obj |-> obj]
MalformedText == [json |-> FALSE, obj |-> EmptyObj]

(***************************************************************************)
(* Node's path module (POSIX): split on "/", drop "" and ".", resolve "..".*)
(* An absolute path is the sequence of its segments below the root.        *)
(***************************************************************************)
RECURSIVE SplitFrom(_, _, _)
SplitFrom(s, i, cur) ==
    IF i > Len(s) THEN <<cur>>
    ELSE IF s[i] = "/" THEN <<cur>> \o SplitFrom(s, i + 1, <<>>)
    ELSE SplitFrom(s, i + 1, Append(cur, s[i]))

Split(s) == SplitFrom(s, 1, <<>>)

RECURSIVE NormalizeFrom(_, _, _)
NormalizeFrom(segs, i, acc) ==
    IF i > Len(segs) THEN acc
    ELSE IF segs[i] = <<>> \/ segs[i] = <<".">> THEN NormalizeFrom(segs, i + 1, acc)
    ELSE IF segs[i] = <<".", ".">>
         THEN NormalizeFrom(segs, i + 1,
                            IF acc = <<>> THEN acc ELSE SubSeq(acc, 1, Len(acc) - 1))
    ELSE NormalizeFrom(segs, i + 1, Append(acc, segs[i]))

\* the process's working directory
Cwd == << <<"w">> >>

\* path.join(base, ...parts) for an absolute, normalised base
RECURSIVE PathJoin(_, _)
PathJoin(base, parts) ==
    IF parts = <<>> THEN base
    ELSE PathJoin(NormalizeFrom(Split(Head(parts)), 1, base), Tail(parts))

\* path.resolve(p): p itself when absolute, else below the working directory
PathResolve(p) ==
    IF p # <<>> /\ p[1] = "/" THEN NormalizeFrom(Split(p), 1, <<>>)
    ELSE NormalizeFrom(Split(p), 1, Cwd)

\* path.basename(p): the last segment, trailing separators ignored
RECURSIVE LastNonEmpty(_)
LastNonEmpty(segs) ==
    IF segs = <<>> THEN <<>>
    ELSE IF segs[Len(segs)] # <<>> THEN segs[Len(segs)]
    ELSE LastNonEmpty(SubSeq(segs, 1, Len(segs) - 1))

PathBasename(p) == LastNonEmpty(Split(p))

\* path.dirname of an absolute path
Dirname(path) == IF path = <<>> THEN <<>> ELSE SubSeq(path, 1, Len(path) - 1)

\* a directory and all its ancestors (mkdirSync with recursive: true)
Ancestors(dir) == {SubSeq(dir, 1, n) : n \in 0..Len(dir)}

CONFIG_DIR == PathResolve(S_configs)
RC_PATH == PathResolve(S_rc)

\* a file name with its two parts in the other order
ConfigFilename_VersionFirst(project, version) == version \o <<"@">> \o project \o S_dotjson

\* `${project}@${version}.json`
ConfigFilename(project, version) == project \o <<"@">> \o version \o S_dotjson

\* an address that leaves the environment out
getConfigPath_NoEnv(project, version, env) ==
    PathJoin(PathJoin(CONFIG_DIR, <<project>>), <<ConfigFilename(project, version)>>)

getConfigPath(project, version, env) ==
    LET baseDir == IF env # <<>>
                   THEN PathJoin(CONFIG_DIR, <<project, S_env, env>>)
                   ELSE PathJoin(CONFIG_DIR, <<project>>)
    IN PathJoin(baseDir, <<ConfigFilename(project, version)>>)

(***************************************************************************)
(* String functions of JavaScript used by the commands.                    *)
(***************************************************************************)
IsSpace(c) == c = " "

RECURSIVE TrimStart(_)
TrimStart(s) == IF s # <<>> /\ IsSpace(Head(s)) THEN TrimStart(Tail(s)) ELSE s

RECURSIVE TrimEnd(_)
TrimEnd(s) ==
    IF s # <<>> /\ IsSpace(s[Len(s)]) THEN TrimEnd(SubSeq(s, 1, Len(s) - 1)) ELSE s

\* String.prototype.trim
Trim(s) == TrimEnd(TrimStart(s))

LowerChar(c) ==
    CASE c = "Y" -> "y"
      [] c = "N" -> "n"
      [] c = "E" -> "e"
      [] c = "S" -> "s"
      [] c = "H" -> "h"
      [] c = "A" -> "a"
      [] OTHER -> c

\* String.prototype.toLowerCase
ToLowerCase(s) == [i \in 1..Len(s) |-> LowerChar(s[i])]

\* api.replace(/\/+$/, '')
RECURSIVE StripTrailingSlashes(_)
StripTrailingSlashes(s) ==
    IF s # <<>> /\ s[Len(s)] = "/"
    THEN StripTrailingSlashes(SubSeq(s, 1, Len(s) - 1))
    ELSE s

EndsWith(s, suffix) ==
    /\ Len(s) >= Len(suffix)
    /\ SubSeq(s, Len(s) - Len(suffix) + 1, Len(s)) = suffix

(***************************************************************************)
(* parseFilename: filename.match(/^(.+?)@(.+?)\.json$/).  The first group  *)
(* is the shortest non-empty prefix followed by "@" for which the rest     *)
(* matches; the rest matches when it is at least one character followed    *)
(* by ".json" at the end of the string.                                    *)
(***************************************************************************)
\* "." of the pattern matches any character but a line terminator
IsLineTerminator(c) == c \in {"\n", "\r"}

SplitsAt(filename, i) ==
    /\ \A k \in 1..Len(filename) : ~IsLineTerminator(filename[k])
    /\ i >= 2
    /\ filename[i] = "@"
    /\ Len(filename) - i >= Len(S_dotjson) + 1
    /\ EndsWith(filename, S_dotjson)

NoMatch == [ok |-> FALSE, project |-> <<>>, version |-> <<>>]

\* a pattern that has lost its "@": /^(.+?)\.json$/, the whole stem taken as the project
parseFilename_NoAt(filename) ==
    IF Len(filename) > Len(S_dotjson) /\ EndsWith(filename, S_dotjson)
    THEN [ok |-> TRUE, project |-> SubSeq(filename, 1, Len(filename) - Len(S_dotjson)),
          version |-> <<>>]
    ELSE NoMatch

parseFilename(filename) ==
    LET splits == {i \in 1..Len(filename) : SplitsAt(filename, i)}
    IN IF splits = {} THEN NoMatch
       ELSE LET i == CHOOSE j \in splits : \A k \in splits : j <= k
            IN [ok |-> TRUE,
                project |-> SubSeq(filename, 1, i - 1),
                version |-> SubSeq(filename, i + 1, Len(filename) - Len(S_dotjson))]

(***************************************************************************)
(* The schema (configSchema) and the validator (validateConfig).           *)
(***************************************************************************)
\* configSchema.required, in order
SchemaRequired == <<"name", "version", "config">>

\* a schema whose config is a string
SchemaProperties_ConfigString == [name |-> "string", version |-> "string", config |-> "string"]

\* configSchema.properties: the JSON type each property must have
SchemaProperties == [name |-> "string", version |-> "string", config |-> "object"]

\* the JSON pointer of each property
PropertyPath == [name |-> "/name", version |-> "/version", config |-> "/config"]

SeqOfSet(S) ==
    LET RECURSIVE Build(_)
        Build(R) == IF R = {} THEN <<>>
                    ELSE LET x == CHOOSE y \in R : TRUE IN <<x>> \o Build(R \ {x})
    IN Build(S)

SelectIn(seq, S) == SelectSeq(seq, LAMBDA k : k \in S)

\* a schema that has lost its "required" keyword
SchemaErrors_NoRequired(obj) ==
    LET extra == SeqOfSet(DOMAIN obj \ DOMAIN SchemaProperties)
        badType == SelectIn(SchemaRequired,
                            {k \in DOMAIN SchemaProperties :
                                k \in DOMAIN obj /\ obj[k].t # SchemaProperties[k]})
    IN [i \in 1..Len(extra) |->
            [instancePath |-> "", keyword |-> "additionalProperties", property |-> extra[i]]]
       \o [i \in 1..Len(badType) |->
            [instancePath |-> PropertyPath[badType[i]], keyword |-> "type",
             property |-> badType[i]]]

\* a schema with additionalProperties: true
SchemaErrors_AllowsExtra(obj) ==
    LET missing == SelectIn(SchemaRequired, {k \in DOMAIN SchemaProperties : k \notin DOMAIN obj})
        badType == SelectIn(SchemaRequired,
                            {k \in DOMAIN SchemaProperties :
                                k \in DOMAIN obj /\ obj[k].t # SchemaProperties[k]})
    IN [i \in 1..Len(missing) |->
            [instancePath |-> "", keyword |-> "required", property |-> missing[i]]]
       \o [i \in 1..Len(badType) |->
            [instancePath |-> PropertyPath[badType[i]], keyword |-> "type",
             property |-> badType[i]]]

\* ajv with allErrors: every violated keyword is reported, each with the
\* instancePath of the value it is about ("" for the document itself)
SchemaErrors(obj) ==
    LET missing == SelectIn(SchemaRequired, {k \in DOMAIN SchemaProperties : k \notin DOMAIN obj})
        extra == SeqOfSet(DOMAIN obj \ DOMAIN SchemaProperties)
        badType == SelectIn(SchemaRequired,
                            {k \in DOMAIN SchemaProperties :
                                k \in DOMAIN obj /\ obj[k].t # SchemaProperties[k]})
    IN [i \in 1..Len(missing) |->
            [instancePath |-> "", keyword |-> "required", property |-> missing[i]]]
       \o [i \in 1..Len(extra) |->
            [instancePath |-> "", keyword |-> "additionalProperties", property |-> extra[i]]]
       \o [i \in 1..Len(badType) |->
            [instancePath |-> PropertyPath[badType[i]], keyword |-> "type",
             property |-> badType[i]]]

\* `${e.instancePath || '/'} ${e.message}`
ErrorLine(e) ==
    [pointer |-> IF e.instancePath = "" THEN "/" ELSE e.instancePath,
     keyword |-> e.keyword, property |-> e.property]

FileNotFoundLine == [pointer |-> "none", keyword |-> "File not found", property |-> ""]
InvalidJsonLine == [pointer |-> "none", keyword |-> "Invalid JSON format.", property |-> ""]

\* a validator that reads the file without looking for it first
validateConfig_NoExistsCheck(files, filePath) ==
    IF filePath \notin DOMAIN files \/ ~files[filePath].json
    THEN [valid |-> FALSE, errors |-> <<InvalidJsonLine>>]
    ELSE LET errs == SchemaErrors(files[filePath].obj)
         IN IF errs = <<>> THEN [valid |-> TRUE, errors |-> <<>>]
            ELSE [valid |-> FALSE, errors |-> [i \in 1..Len(errs) |-> ErrorLine(errs[i])]]

\* a validator that only asks for a file holding JSON
validateConfig_AnyJson(files, filePath) ==
    IF filePath \notin DOMAIN files
    THEN [valid |-> FALSE, errors |-> <<FileNotFoundLine>>]
    ELSE IF ~files[filePath].json
    THEN [valid |-> FALSE, errors |-> <<InvalidJsonLine>>]
    ELSE [valid |-> TRUE, errors |-> <<>>]

validateConfig(files, filePath) ==
    IF filePath \notin DOMAIN files
    THEN [valid |-> FALSE, errors |-> <<FileNotFoundLine>>]
    ELSE IF ~files[filePath].json
    THEN [valid |-> FALSE, errors |-> <<InvalidJsonLine>>]
    ELSE LET errs == SchemaErrors(files[filePath].obj)
         IN IF errs = <<>> THEN [valid |-> TRUE, errors |-> <<>>]
            ELSE [valid |-> FALSE, errors |-> [i \in 1..Len(errs) |-> ErrorLine(errs[i])]]

(***************************************************************************)
(* The local store: loadConfig, saveConfig.                                *)
(***************************************************************************)
Threw(err) == [ok |-> FALSE, err |-> err, val |-> EmptyObj]
Returned(val) == [ok |-> TRUE, err |-> "", val |-> val]

loadConfig(files, filepath) ==
    IF filepath \notin DOMAIN files THEN Threw("FileNotFound")
    ELSE IF ~files[filepath].json THEN Threw("ParseError")
    ELSE Returned(files[filepath].obj)

\* JSON.stringify(config, null, 2): properties whose value is undefined are dropped
JSONstringify(obj) ==
    JsonText([k \in {key \in DOMAIN obj : obj[key].t # "undefined"} |-> obj[k]])

\* a write that leaves nothing but the file written
WriteFile_Replace(files, path, text) == [p \in {path} |-> text]

\* fs.writeFileSync(path, text)
WriteFile(files, path, text) ==
    [p \in DOMAIN files \cup {path} |-> IF p = path THEN text ELSE files[p]]

\* a saveConfig that writes every version to <project>@latest.json
saveConfig_Latest(files, directories, project, version, config, env) ==
    LET baseDir == IF env # <<>>
                   THEN PathJoin(CONFIG_DIR, <<project, S_env, env>>)
                   ELSE PathJoin(CONFIG_DIR, <<project>>)
        made == directories \cup Ancestors(baseDir)
        filepath == PathJoin(baseDir, <<ConfigFilename(project, S_latest)>>)
    IN IF Dirname(filepath) \notin made \/ filepath \in made
       THEN [ok |-> FALSE, files |-> files, dirs |-> made]
       ELSE [ok |-> TRUE, files |-> WriteFile(files, filepath, JSONstringify(config)),
             dirs |-> made]

\* a saveConfig that does not create the directories
saveConfig_NoMkdir(files, directories, project, version, config, env) ==
    LET baseDir == IF env # <<>>
                   THEN PathJoin(CONFIG_DIR, <<project, S_env, env>>)
                   ELSE PathJoin(CONFIG_DIR, <<project>>)
        filepath == PathJoin(baseDir, <<ConfigFilename(project, TemplateString(version))>>)
    IN IF Dirname(filepath) \notin directories \/ filepath \in directories
       THEN [ok |-> FALSE, files |-> files, dirs |-> directories]
       ELSE [ok |-> TRUE, files |-> WriteFile(files, filepath, JSONstringify(config)),
             dirs |-> directories]

\* a saveConfig that has no environment directories
saveConfig_NoEnv(files, directories, project, version, config, env) ==
    LET baseDir == PathJoin(CONFIG_DIR, <<project>>)
        made == directories \cup Ancestors(baseDir)
        filepath == PathJoin(baseDir, <<ConfigFilename(project, TemplateString(version))>>)
    IN IF Dirname(filepath) \notin made \/ filepath \in made
       THEN [ok |-> FALSE, files |-> files, dirs |-> made]
       ELSE [ok |-> TRUE, files |-> WriteFile(files, filepath, JSONstringify(config)),
             dirs |-> made]

\* saveConfig: the store and the directories after it, or the error
\* fs.writeFileSync throws when the file's directory does not exist, or
\* when the path is a directory
saveConfig(files, directories, project, version, config, env) ==
    LET baseDir == IF env # <<>>
                   THEN PathJoin(CONFIG_DIR, <<project, S_env, env>>)
                   ELSE PathJoin(CONFIG_DIR, <<project>>)
        made == directories \cup Ancestors(baseDir)
        filepath == PathJoin(baseDir, <<ConfigFilename(project, TemplateString(version))>>)
    IN IF Dirname(filepath) \notin made \/ filepath \in made
       THEN [ok |-> FALSE, files |-> files, dirs |-> made]
       ELSE [ok |-> TRUE, files |-> WriteFile(files, filepath, JSONstringify(config)),
             dirs |-> made]

(***************************************************************************)
(* The endpoint settings: .corevrc.json.                                   *)
(***************************************************************************)
\* a saveApiBase that keeps the other fields of the record: {...existing, api}
saveApiBase_Merge(files, api) ==
    LET existing == IF RC_PATH \in DOMAIN files /\ files[RC_PATH].json
                    THEN files[RC_PATH].obj ELSE EmptyObj
    IN WriteFile(files, RC_PATH,
                 JSONstringify([k \in DOMAIN existing \cup {"api"} |->
                                   IF k = "api" THEN Str(api) ELSE existing[k]]))

saveApiBase(files, api) ==
    WriteFile(files, RC_PATH, JSONstringify([k \in {"api"} |-> Str(api)]))

\* loadRc: the parsed record, {} when the file is missing
loadRc(files) ==
    IF RC_PATH \in DOMAIN files THEN loadConfig(files, RC_PATH) ELSE Returned(EmptyObj)

\* a saveToken that writes {token} alone
saveToken_Overwrite(files, token) ==
    WriteFile(files, RC_PATH, JSONstringify([k \in {"token"} |-> Str(token)]))

\* {...existing, token}
saveToken(files, token) ==
    LET existing == loadRc(files).val
    IN WriteFile(files, RC_PATH,
                 JSONstringify([k \in DOMAIN existing \cup {"token"} |->
                                   IF k = "token" THEN Str(token) ELSE existing[k]]))

Truthy(val) == val.t \notin {"undefined", "null"} /\ ~(val.t = "string" /\ val.v = <<>>)

getApiBase(files) ==
    IF RC_PATH \notin DOMAIN files THEN Threw("ApiBaseNotSet")
    ELSE IF ~files[RC_PATH].json THEN Threw("ParseError")
    ELSE LET api == Get(files[RC_PATH].obj, "api")
         IN IF ~Truthy(api) THEN Threw("ApiBaseNotSet")
            ELSE IF api.t # "string" THEN Threw("TypeError")
            ELSE Returned(Str(StripTrailingSlashes(api.v)))

\* data.token || null; the caller only tests it for truthiness
getToken(files) ==
    IF RC_PATH \notin DOMAIN files THEN Returned(Undefined)
    ELSE IF ~files[RC_PATH].json THEN Threw("ParseError")
    ELSE LET token == Get(files[RC_PATH].obj, "token")
         IN Returned(IF Truthy(token) THEN token ELSE Undefined)

(***************************************************************************)
(* The inputs of the model: command-line arguments, answers and the        *)
(* remote's responses.                                                     *)
(***************************************************************************)
P_a == <<"a">>
P_b == <<"b">>
V_1 == <<"1">>
V_2 == <<"2">>
\* a version with a path separator in it, as in "2025/04"
V_slash == <<"2", "/", "4">>
\* a version that leads from <root>/<project>/<project>@ up to the working
\* directory and names the settings file there
V_rc == <<"/", ".", ".", "/", ".", ".", "/", ".", ".", "/", ".", "c", "o", "r", "e", "v", "r", "c">>
E_s == <<"s">>
\* the parent directory given as an environment
E_up == <<".", ".">>

Projects == {P_a}
Versions == {V_1, V_2}
Envs == {NoEnv, E_s, E_up}

\* what init is given for --api and --token (<<>>: not given)
ApiInputs == {<<>>, <<" ", "H", "/">>}
TokenInputs == {<<>>, <<"t", " ">>}

\* answers typed at revert's prompt
Answers == {<<"y">>, <<" ", "Y", " ">>, <<"n">>, <<>>, <<"y", "e", "s">>}

C_1 == Obj(<<"c", "1">>)

Doc(name, version, config) == [name |-> name, version |-> version, config |-> config]

GoodDoc(project, version) == Doc(Str(project), Str(version), C_1)

\* a document without its config
NoConfigDoc(project, version) ==
    [k \in {"name", "version"} |-> IF k = "name" THEN Str(project) ELSE Str(version)]

\* a document with one more top-level field
ExtraDoc(project, version) ==
    [k \in {"name", "version", "config", "extra"} |->
        CASE k = "name" -> Str(project)
          [] k = "version" -> Str(version)
          [] k = "config" -> C_1
          [] OTHER -> Str(<<"x">>)]

\* the bodies the remote answers a GET with (null: a JSON null body)
NullData == [isNull |-> TRUE, obj |-> EmptyObj]
Data(obj) == [isNull |-> FALSE, obj |-> obj]

ResponseData ==
    { Data(GoodDoc(P_a, V_1)),
      Data(GoodDoc(P_a, V_2)),
      Data(GoodDoc(P_b, V_1)),
      Data(GoodDoc(P_a, V_slash)),
      Data(GoodDoc(P_a, V_rc)),
      Data(Doc(Str(P_a), Num(V_1), C_1)),
      Data(NoConfigDoc(P_a, V_1)),
      Data([k \in {"name", "config"} |-> IF k = "name" THEN Str(P_a) ELSE C_1]),
      Data(ExtraDoc(P_a, V_1)),
      NullData }

\* how a request ends: a 2xx response, a response with another status
\* (axios rejects), or no response at all (axios rejects, no status)
GetOutcomes ==
    {[kind |-> "ok", status |-> 200, data |-> d] : d \in ResponseData}
    \cup {[kind |-> "http", status |-> st, data |-> NullData] : st \in {404, 500}}
    \cup {[kind |-> "network", status |-> 0, data |-> NullData]}

PostOutcomes ==
    {[kind |-> "ok", status |-> 200, data |-> NullData],
     [kind |-> "http", status |-> 400, data |-> NullData],
     [kind |-> "network", status |-> 0, data |-> NullData]}

\* the files the operator may have put in place before the first invocation
SeedPath == getConfigPath(P_a, V_1, NoEnv)
SeedEnvPath == getConfigPath(P_a, V_1, E_s)
BadNamePath == PathResolve(<<"b", "a", "d">> \o S_dotjson)

SeedTexts ==
    {JsonText(GoodDoc(P_a, V_1)), JsonText(GoodDoc(P_a, V_2)),
     JsonText(NoConfigDoc(P_a, V_2)), MalformedText}

\* the paths push is given: the seed files by relative path, a file
\* whose name has no "@", and a well-named file that does not exist
S_slash == <<"/">>
PushFiles ==
    { S_configs \o S_slash \o P_a \o S_slash \o ConfigFilename(P_a, V_1),
      <<"b", "a", "d">> \o S_dotjson,
      <<"a", "@">> \o S_dotjson,
      ConfigFilename(P_b, V_1) }

(***************************************************************************)
(* Requests, reports and the outcome of one step of a command.             *)
(***************************************************************************)
\* {...(token ? {'x-corev-secret': token} : {}), ...(env ? {'x-corev-env': env} : {}),
\*  'x-corev-action': action}; action <<>> for the commands that set none
\* headers without the environment
Headers_NoEnv(token, env, action) ==
    [h \in (IF Truthy(token) THEN {"x-corev-secret"} ELSE {})
           \cup (IF action # <<>> THEN {"x-corev-action"} ELSE {}) |->
        CASE h = "x-corev-secret" -> token.v
          [] OTHER -> action]

Headers(token, env, action) ==
    [h \in (IF Truthy(token) THEN {"x-corev-secret"} ELSE {})
           \cup (IF env # <<>> THEN {"x-corev-env"} ELSE {})
           \cup (IF action # <<>> THEN {"x-corev-action"} ELSE {}) |->
        CASE h = "x-corev-secret" -> token.v
          [] h = "x-corev-env" -> env
          [] OTHER -> action]

\* `${api}/configs/${project}` and `${api}/configs/${project}/${rest}`
ConfigsUrl(api, project) == api \o S_slash \o S_configs \o S_slash \o project
ConfigUrl(api, project, rest) == ConfigsUrl(api, project) \o S_slash \o rest

Request(method, url, headers, body) ==
    [method |-> method, url |-> url, headers |-> headers, body |-> body]

\* one line of terminal output: the spinner's level and message, the kind of
\* the error printed with it, the HTTP status printed (0: none) and whether
\* the "might not exist on the remote server" hint is printed
Report(level, what, error, status, hint) ==
    [level |-> level, what |-> what, error |-> error, status |-> status, hint |-> hint]

NoRequest == Request("", <<>>, Headers(Undefined, <<>>, <<>>), EmptyObj)

\* the running command: its arguments, and what it holds across an await
NoInv == [op |-> "none", project |-> <<>>, version |-> <<>>, env |-> <<>>,
          file |-> <<>>, api |-> <<>>, token |-> <<>>,
          pending |-> NoRequest, gate |-> FALSE, answer |-> <<>>]

\* the command has ended: what it printed and the process's exit status
Ended(reps, code, valid) ==
    [pc |-> "done", reports |-> reps, exitCode |-> code, requests |-> <<>>,
     validated |-> valid, pending |-> NoRequest]

\* the command waits: for the response to the request it sent, or at the prompt
Waits(at, reps, reqs, valid, pending) ==
    [pc |-> at, reports |-> reps, exitCode |-> -1, requests |-> reqs,
     validated |-> valid, pending |-> pending]

(***************************************************************************)
(* push <file> [--env <environment>]                                       *)
(***************************************************************************)
\* the catch block of push: no process.exit, the process ends with status 0
pushCatch(err, status, valid) ==
    Ended(<<Report("fail", "Failed to push config.", err, status, FALSE)>>, 0, valid)

\* a push that stops on a file whose embedded name or version is not the one
\* in its file name
pushAction_Compares(files, file, env) ==
    LET api == getApiBase(files)
        token == getToken(files)
        filepath == PathResolve(file)
        parsed == parseFilename(PathBasename(file))
        payload == loadConfig(files, filepath)
        result == validateConfig(files, filepath)
    IN IF ~api.ok THEN pushCatch(api.err, 0, "none")
       ELSE IF ~token.ok THEN pushCatch(token.err, 0, "none")
       ELSE IF ~parsed.ok
       THEN Ended(<<Report("fail", "Invalid filename format. Use <project>@<version>.json",
                           "", 0, FALSE)>>, 1, "none")
       ELSE IF ~payload.ok THEN pushCatch(payload.err, 0, "none")
       ELSE IF ~result.valid
       THEN Ended(<<Report("fail", "Schema validation failed.", "", 0, FALSE)>>, 1, "invalid")
       ELSE IF \/ Get(payload.val, "name") # Str(parsed.project)
               \/ Get(payload.val, "version") # Str(parsed.version)
       THEN Ended(<<Report("warn", "Warning: contains mismatched name/version.", "", 0, FALSE)>>,
                  1, "valid")
       ELSE Waits("await_post", <<>>,
                  <<Request("POST", ConfigsUrl(api.val.v, parsed.project),
                            Headers(token.val, env, S_push), payload.val)>>,
                  "valid", NoRequest)

\* the action of push up to its await
pushAction(files, file, env) ==
    LET api == getApiBase(files)
        token == getToken(files)
        filepath == PathResolve(file)
        parsed == parseFilename(PathBasename(file))
        payload == loadConfig(files, filepath)
        result == validateConfig(files, filepath)
    IN IF ~api.ok THEN pushCatch(api.err, 0, "none")
       ELSE IF ~token.ok THEN pushCatch(token.err, 0, "none")
       ELSE IF ~parsed.ok
       THEN Ended(<<Report("fail", "Invalid filename format. Use <project>@<version>.json",
                           "", 0, FALSE)>>, 1, "none")
       ELSE IF ~payload.ok THEN pushCatch(payload.err, 0, "none")
       ELSE IF ~result.valid
       THEN Ended(<<Report("fail", "Schema validation failed.", "", 0, FALSE)>>, 1, "invalid")
       ELSE Waits("await_post", <<>>,
                  <<Request("POST", ConfigsUrl(api.val.v, parsed.project),
                            Headers(token.val, env, S_push), payload.val)>>,
                  "valid", NoRequest)

\* a push that sends its request again when the transfer failed
pushSettled_Retry(outcome) ==
    IF outcome.kind = "ok"
    THEN Ended(<<Report("succeed", "Pushed config", "", outcome.status, FALSE)>>, 0, "valid")
    ELSE Waits("await_post", <<>>, <<NoRequest>>, "valid", NoRequest)

\* the rest of push, once axios.post has settled
pushSettled(outcome) ==
    IF outcome.kind = "ok"
    THEN Ended(<<Report("succeed", "Pushed config", "", outcome.status, FALSE)>>, 0, "valid")
    ELSE pushCatch("AxiosError", outcome.status, "valid")

(***************************************************************************)
(* revert <project> <version> [--env <environment>]                        *)
(***************************************************************************)
\* the catch block of revert ends in process.exit(1)
revertCatch(err, status, valid) ==
    Ended(<<Report("fail", "Revert failed", err, status, FALSE)>>, 1, valid)

revertPost(api, project, headers, payload) ==
    Request("POST", ConfigsUrl(api, project), headers, payload)

\* a revert that does not look for the file first
revertFileExists_Always(files, filepath) == TRUE

\* !fs.existsSync(filepath) is its negation
revertFileExists(files, filepath) == filepath \in DOMAIN files

\* payload.name !== project || payload.version !== version
revertMismatch(payload, project, version) ==
    Get(payload, "name") # Str(project) \/ Get(payload, "version") # Str(version)

\* the action of revert up to its first await: the prompt or the POST
revertAction(files, project, version, env) ==
    LET filepath == getConfigPath(project, version, env)
        api == getApiBase(files)
        token == getToken(files)
        result == validateConfig(files, filepath)
        payload == loadConfig(files, filepath)
    IN IF ~revertFileExists(files, filepath)
       THEN Ended(<<Report("fail", "Local config file not found", "", 0, FALSE)>>, 1, "none")
       ELSE IF ~api.ok THEN revertCatch(api.err, 0, "none")
       ELSE IF ~token.ok THEN revertCatch(token.err, 0, "none")
       ELSE IF ~result.valid
       THEN Ended(<<Report("fail", "Validation failed for local config file.", "", 0, FALSE)>>,
                  1, "invalid")
       ELSE IF ~payload.ok THEN revertCatch(payload.err, 0, "valid")
       ELSE IF revertMismatch(payload.val, project, version)
       THEN Waits("gate",
                  <<Report("warn", "Warning: contains mismatched name/version.", "", 0, FALSE)>>,
                  <<>>, "valid",
                  revertPost(api.val.v, project, Headers(token.val, env, S_revert),
                             payload.val))
       ELSE Waits("await_post", <<>>,
                  <<revertPost(api.val.v, project, Headers(token.val, env, S_revert),
                               payload.val)>>,
                  "valid", NoRequest)

\* a prompt whose default is yes: answer.trim().toLowerCase() === 'n' aborts
Confirms_UnlessN(answer) == ToLowerCase(Trim(answer)) # <<"n">>

\* a prompt that takes every answer beginning with y for a yes
Confirms_StartsWithY(answer) ==
    ToLowerCase(Trim(answer)) # <<>> /\ ToLowerCase(Trim(answer))[1] = "y"

\* whether the answer lets the revert go on
Confirms(answer) == ToLowerCase(Trim(answer)) = S_y

\* a revert that asks again until the answer is yes
revertAnswered_AskAgain(pending, answer) ==
    IF ~Confirms(answer)
    THEN Waits("gate", <<>>, <<>>, "valid", pending)
    ELSE Waits("await_post", <<>>, <<pending>>, "valid", NoRequest)

\* revert once askForConfirmation has resolved: the POST is made of the api,
\* the headers and the payload read before the prompt
revertAnswered(pending, answer) ==
    IF ~Confirms(answer)
    THEN Ended(<<Report("info", "Revert aborted.", "", 0, FALSE)>>, 0, "valid")
    ELSE Waits("await_post", <<>>, <<pending>>, "valid", NoRequest)

revertSettled(outcome) ==
    IF outcome.kind = "ok"
    THEN Ended(<<Report("succeed", "Successfully reverted", "", outcome.status, FALSE)>>,
               0, "valid")
    ELSE revertCatch("AxiosError", outcome.status, "valid")

(***************************************************************************)
(* pull <project> [--env <environment>]                                    *)
(***************************************************************************)
\* the catch block of pull: no process.exit, the process ends with status 0
pullCatch(err, status) ==
    Ended(<<Report("fail", "Failed to fetch config.", err, status, FALSE)>>, 0, "none")

\* the action of pull up to its await
pullAction(files, project, env) ==
    LET api == getApiBase(files)
        token == getToken(files)
    IN IF ~api.ok THEN pullCatch(api.err, 0)
       ELSE IF ~token.ok THEN pullCatch(token.err, 0)
       ELSE Waits("await_get", <<>>,
                  <<Request("GET", ConfigUrl(api.val.v, project, S_latest),
                            Headers(token.val, env, <<>>), EmptyObj)>>,
                  "none", NoRequest)

\* a pick that keeps every field of res.data
Picked_All(data) == [k \in DOMAIN data \cup {"name", "version", "config"} |-> Get(data, k)]

\* a pick that leaves the version out
Picked_NoVersion(data) ==
    [k \in {"name", "version", "config"} |-> IF k = "version" THEN Undefined ELSE Get(data, k)]

\* {name, version, config}: the three fields picked out of res.data
Picked(data) == [k \in {"name", "version", "config"} |-> Get(data, k)]

\* the path pull validates after saving
pullFilePath(project, version, env) ==
    IF env # <<>>
    THEN PathResolve(S_configs \o S_slash \o project \o S_slash \o S_env \o S_slash \o env
                     \o S_slash \o ConfigFilename(project, TemplateString(version)))
    ELSE PathResolve(S_configs \o S_slash \o project \o S_slash
                     \o ConfigFilename(project, TemplateString(version)))

\* the rest of pull, once axios.get has settled: the outcome, the store and
\* the directories
pullSettled(files, directories, project, env, outcome) ==
    LET doc == Picked(outcome.data.obj)
        saved == saveConfig(files, directories, project, doc.version, doc, env)
        result == validateConfig(saved.files, pullFilePath(project, doc.version, env))
    IN IF outcome.kind # "ok"
       THEN [out |-> pullCatch("AxiosError", outcome.status), files |-> files,
             dirs |-> directories]
       ELSE IF outcome.data.isNull
       THEN [out |-> pullCatch("TypeError", 0), files |-> files, dirs |-> directories]
       ELSE IF ~saved.ok
       THEN [out |-> pullCatch("ENOENT", 0), files |-> saved.files, dirs |-> saved.dirs]
       ELSE IF ~result.valid
       THEN [out |-> Ended(<<Report("warn", "Config pulled but failed schema validation.",
                                    "", 0, FALSE)>>, 0, "invalid"),
             files |-> saved.files, dirs |-> saved.dirs]
       ELSE [out |-> Ended(<<Report("succeed", "Config saved", "", 0, FALSE)>>, 0, "valid"),
             files |-> saved.files, dirs |-> saved.dirs]

(***************************************************************************)
(* checkout <project> <version>                                            *)
(***************************************************************************)
\* a catch block that prints the same lines for every failure
checkoutCatch_NoHint(reps, err, status) ==
    Ended(reps \o <<Report("fail", "Failed to checkout config", err, status, FALSE)>>,
          1, "none")

\* the catch block of checkout ends in process.exit(1); the hint is printed
\* for a response with status 404
checkoutCatch(reps, err, status) ==
    Ended(reps \o <<Report("fail", "Failed to checkout config", err, status, status = 404)>>,
          1, "none")

checkoutAction(files, project, version) ==
    LET api == getApiBase(files)
        token == getToken(files)
    IN IF ~api.ok THEN checkoutCatch(<<>>, api.err, 0)
       ELSE IF ~token.ok THEN checkoutCatch(<<>>, token.err, 0)
       ELSE Waits("await_get", <<>>,
                  <<Request("GET", ConfigUrl(api.val.v, project, version),
                            Headers(token.val, <<>>, <<>>), EmptyObj)>>,
                  "none", NoRequest)

\* a comparison that warns only when both the name and the version differ
checkoutMismatch_And(doc, project, version) ==
    doc.name # Str(project) /\ doc.version # Str(version)

\* name !== project || fetchedVersion !== version
checkoutMismatch(doc, project, version) ==
    doc.name # Str(project) \/ doc.version # Str(version)

checkoutFilePath(project, fetchedVersion) ==
    PathResolve(S_configs \o S_slash \o project \o S_slash
                \o ConfigFilename(project, TemplateString(fetchedVersion)))

checkoutSettled(files, directories, project, version, outcome) ==
    LET doc == Picked(outcome.data.obj)
        warned == IF checkoutMismatch(doc, project, version)
                  THEN <<Report("warn", "Mismatched config received.", "", 0, FALSE)>>
                  ELSE <<>>
        saved == saveConfig(files, directories, project, doc.version, doc, <<>>)
        result == validateConfig(saved.files, checkoutFilePath(project, doc.version))
    IN IF outcome.kind # "ok"
       THEN [out |-> checkoutCatch(<<>>, "AxiosError", outcome.status), files |-> files,
             dirs |-> directories]
       ELSE IF outcome.data.isNull
       THEN [out |-> checkoutCatch(<<>>, "TypeError", 0), files |-> files,
             dirs |-> directories]
       ELSE IF ~saved.ok
       THEN [out |-> checkoutCatch(warned, "ENOENT", 0), files |-> saved.files,
             dirs |-> saved.dirs]
       ELSE IF ~result.valid
       THEN [out |-> Ended(warned \o <<Report("warn",
                                "Config checked out but failed schema validation.",
                                "", 0, FALSE)>>, 0, "invalid"),
             files |-> saved.files, dirs |-> saved.dirs]
       ELSE [out |-> Ended(warned \o <<Report("succeed", "Config checked out", "", 0, FALSE)>>,
                           0, "valid"),
             files |-> saved.files, dirs |-> saved.dirs]

(***************************************************************************)
(* init [--api <url>] [--token <secret>]: api and token are the values     *)
(* after the prompts, <<>> for one that was not given.                     *)
(***************************************************************************)
initAction(files, api, token) ==
    LET withApi == IF api # <<>> THEN saveApiBase(files, ToLowerCase(Trim(api))) ELSE files
        withToken == IF token # <<>> THEN saveToken(withApi, Trim(token)) ELSE withApi
    IN IF api = <<>> /\ token = <<>>
       THEN [out |-> Ended(<<Report("fail", "At least one of --api or --token must be provided.",
                                    "", 0, FALSE)>>, 1, "none"),
             files |-> files]
       ELSE [out |-> Ended((IF api # <<>>
                            THEN <<Report("succeed", "Corev configured", "", 0, FALSE)>>
                            ELSE <<>>)
                           \o (IF token # <<>>
                               THEN <<Report("succeed", "Token saved to config", "", 0, FALSE)>>
                               ELSE <<>>), 0, "none"),
             files |-> withToken]

(***************************************************************************)
(* The state machine.  One command runs at a time; a command that waits    *)
(* (for a response, at the prompt) is resumed by the action of its await.  *)
(***************************************************************************)
\* no function of the library is applied on its own
NoCall == [fn |-> "none"]

RcTexts ==
    {JSONstringify([k \in {"api"} |-> Str(<<"h">>)]),
     JSONstringify([k \in {"api", "token"} |-> IF k = "api" THEN Str(<<"h">>) ELSE Str(<<"t">>)])}

DirsOf(files) == UNION {Ancestors(Dirname(p)) : p \in DOMAIN files} \cup Ancestors(CONFIG_DIR)

Init ==
    /\ \E seed \in SeedTexts \cup {MalformedText}, hasSeed, hasEnvSeed, hasRc \in BOOLEAN,
          rc \in RcTexts :
          fs = [p \in {BadNamePath}
                      \cup (IF hasSeed THEN {SeedPath} ELSE {})
                      \cup (IF hasEnvSeed THEN {SeedEnvPath} ELSE {})
                      \cup (IF hasRc THEN {RC_PATH} ELSE {}) |->
                   CASE p = SeedPath -> seed
                     [] p = RC_PATH -> rc
                     [] OTHER -> JsonText(GoodDoc(P_a, V_1))]
    /\ dirs = DirsOf(fs)
    /\ pc = "idle"
    /\ inv = NoInv
    /\ requests = <<>>
    /\ responses = <<>>
    /\ reports = <<>>
    /\ exitCode = -1
    /\ validated = "none"
    /\ nOps = 0
    /\ call = NoCall
    /\ ret = NoCall

CanStart == pc \in {"idle", "done"} /\ nOps < MaxOps

\* a command starts: a new process, with nothing sent and nothing printed
StartedWith(args, out) ==
    /\ pc' = out.pc
    /\ inv' = [args EXCEPT !.pending = out.pending, !.gate = out.pc = "gate"]
    /\ requests' = out.requests
    /\ responses' = <<>>
    /\ reports' = out.reports
    /\ exitCode' = out.exitCode
    /\ validated' = out.validated
    /\ nOps' = nOps + 1
    /\ UNCHANGED <<call, ret>>

Started(op, project, version, env, file, out) ==
    StartedWith([NoInv EXCEPT !.op = op, !.project = project, !.version = version,
                              !.env = env, !.file = file], out)

\* a waiting command goes on, with the response or the answer it waited for
Resumed(out, settled, answer) ==
    /\ pc' = out.pc
    /\ inv' = [inv EXCEPT !.pending = out.pending, !.answer = answer]
    /\ requests' = requests \o out.requests
    /\ responses' = responses \o settled
    /\ reports' = reports \o out.reports
    /\ exitCode' = out.exitCode
    /\ validated' = out.validated
    /\ nOps' = nOps
    /\ UNCHANGED <<call, ret>>

InitCmd ==
    \E api \in ApiInputs, token \in TokenInputs :
        LET r == initAction(fs, api, token)
        IN /\ CanStart
           /\ StartedWith([NoInv EXCEPT !.op = "init", !.api = api, !.token = token], r.out)
           /\ fs' = r.files
           /\ UNCHANGED dirs

\* a push that keeps a copy of the document it sends, in <root>/sent.json
Push_WritesBack ==
    \E file \in PushFiles, env \in Envs :
        LET out == pushAction(fs, file, env)
        IN /\ CanStart
           /\ Started("push", <<>>, <<>>, env, file, out)
           /\ fs' = IF out.requests = <<>> THEN fs
                    ELSE WriteFile(fs, PathJoin(CONFIG_DIR, <<<<"s", "e", "n", "t">> \o S_dotjson>>),
                                   JSONstringify(out.requests[1].body))
           /\ UNCHANGED dirs

Push ==
    \E file \in PushFiles, env \in Envs :
        /\ CanStart
        /\ Started("push", <<>>, <<>>, env, file, pushAction(fs, file, env))
        /\ UNCHANGED <<fs, dirs>>

PushResponse ==
    \E outcome \in PostOutcomes :
        /\ pc = "await_post"
        /\ inv.op = "push"
        /\ Resumed(pushSettled(outcome), <<outcome>>, inv.answer)
        /\ UNCHANGED <<fs, dirs>>

Revert ==
    \E project \in Projects, version \in Versions, env \in Envs :
        /\ CanStart
        /\ Started("revert", project, version, env, <<>>,
                   revertAction(fs, project, version, env))
        /\ UNCHANGED <<fs, dirs>>

RevertAnswer ==
    \E answer \in Answers :
        /\ pc = "gate"
        /\ inv.op = "revert"
        /\ Resumed(revertAnswered(inv.pending, answer), <<>>, answer)
        /\ UNCHANGED <<fs, dirs>>

RevertResponse ==
    \E outcome \in PostOutcomes :
        /\ pc = "await_post"
        /\ inv.op = "revert"
        /\ Resumed(revertSettled(outcome), <<outcome>>, inv.answer)
        /\ UNCHANGED <<fs, dirs>>

Pull ==
    \E project \in Projects, env \in Envs :
        /\ CanStart
        /\ Started("pull", project, <<>>, env, <<>>, pullAction(fs, project, env))
        /\ UNCHANGED <<fs, dirs>>

PullResponse ==
    \E outcome \in GetOutcomes :
        LET r == pullSettled(fs, dirs, inv.project, inv.env, outcome)
        IN /\ pc = "await_get"
           /\ inv.op = "pull"
           /\ Resumed(r.out, <<outcome>>, inv.answer)
           /\ fs' = r.files
           /\ dirs' = r.dirs

Checkout ==
    \E project \in Projects, version \in Versions :
        /\ CanStart
        /\ Started("checkout", project, version, <<>>, <<>>,
                   checkoutAction(fs, project, version))
        /\ UNCHANGED <<fs, dirs>>

CheckoutResponse ==
    \E outcome \in GetOutcomes :
        LET r == checkoutSettled(fs, dirs, inv.project, inv.version, outcome)
        IN /\ pc = "await_get"
           /\ inv.op = "checkout"
           /\ Resumed(r.out, <<outcome>>, inv.answer)
           /\ fs' = r.files
           /\ dirs' = r.dirs

Next ==
    \/ InitCmd
    \/ Pull
    \/ PullResponse
    \/ Push
    \/ PushResponse
    \/ Checkout
    \/ CheckoutResponse
    \/ Revert
    \/ RevertAnswer
    \/ RevertResponse

Spec == Init /\ [][Next]_vars

\* what a waiting command waits for happens: the network call returns or
\* fails, the prompt is answered
Settles ==
    /\ pc \in {"await_get", "await_post", "gate"}
    /\ \/ PullResponse
       \/ PushResponse
       \/ CheckoutResponse
       \/ RevertAnswer
       \/ RevertResponse

\* the commands, with every network call settling and every prompt answered
FairSpec == Spec /\ WF_vars(Settles)

(***************************************************************************)
(* Two invocations on the same directory.  Nothing locks the store: the    *)
(* write of another process may land between the two reads push and revert *)
(* make of their file.  A command is followed from one read to the other,  *)
(* holding what it has read so far; the other process is a pull whose      *)
(* saveConfig lands.                                                       *)
(***************************************************************************)
\* what push holds once loadConfig has returned
pushHolds(files, file) ==
    [fn |-> "push", api |-> getApiBase(files).val.v, token |-> getToken(files).val,
     payload |-> loadConfig(files, PathResolve(file)).val]

\* push from validateConfig on, on the store as it is then
pushValidates(held, files, file, env) ==
    LET parsed == parseFilename(PathBasename(file))
        result == validateConfig(files, PathResolve(file))
    IN IF ~result.valid
       THEN Ended(<<Report("fail", "Schema validation failed.", "", 0, FALSE)>>, 1, "invalid")
       ELSE Waits("await_post", <<>>,
                  <<Request("POST", ConfigsUrl(held.api, parsed.project),
                            Headers(held.token, env, S_push), held.payload)>>,
                  "valid", NoRequest)

\* what revert holds once validateConfig has returned valid
revertHolds(files) ==
    [fn |-> "revert", api |-> getApiBase(files).val.v, token |-> getToken(files).val]

\* revert from loadConfig on, on the store as it is then
revertLoads(held, files, project, version, env) ==
    LET payload == loadConfig(files, getConfigPath(project, version, env))
    IN IF ~payload.ok THEN revertCatch(payload.err, 0, "valid")
       ELSE IF revertMismatch(payload.val, project, version)
       THEN Waits("gate",
                  <<Report("warn", "Warning: contains mismatched name/version.", "", 0, FALSE)>>,
                  <<>>, "valid",
                  revertPost(held.api, project, Headers(held.token, env, S_revert),
                             payload.val))
       ELSE Waits("await_post", <<>>,
                  <<revertPost(held.api, project, Headers(held.token, env, S_revert),
                               payload.val)>>,
                  "valid", NoRequest)

\* the command is between its two reads of the file
BetweenReads == pc \in {"push_loaded", "revert_validated"}

\* a command starts and runs up to its first read, or ends before it
RaceStarted(args, out, held) ==
    /\ CanStart
    /\ pc' = out.pc
    /\ inv' = args
    /\ requests' = <<>>
    /\ responses' = <<>>
    /\ reports' = out.reports
    /\ exitCode' = out.exitCode
    /\ validated' = out.validated
    /\ nOps' = nOps + 1
    /\ call' = held
    /\ UNCHANGED <<fs, dirs, ret>>

\* the command makes its second read and goes on to its await, or ends
RaceResumed(out) ==
    /\ BetweenReads
    /\ pc' = out.pc
    /\ inv' = [inv EXCEPT !.pending = out.pending, !.gate = out.pc = "gate"]
    /\ requests' = out.requests
    /\ reports' = out.reports
    /\ exitCode' = out.exitCode
    /\ validated' = out.validated
    /\ UNCHANGED <<fs, dirs, responses, nOps, call, ret>>

\* push up to loadConfig: it ends there when the settings, the file name or
\* the file's JSON stop it
RacePushLoad ==
    \E file \in PushFiles, env \in Envs :
        LET out == pushAction(fs, file, env)
            args == [NoInv EXCEPT !.op = "push", !.file = file, !.env = env]
        IN IF out.pc = "done" /\ out.validated = "none"
           THEN RaceStarted(args, out, NoCall)
           ELSE RaceStarted(args, Waits("push_loaded", <<>>, <<>>, "none", NoRequest),
                            pushHolds(fs, file))

RacePushValidate ==
    /\ pc = "push_loaded"
    /\ RaceResumed(pushValidates(call, fs, inv.file, inv.env))

\* revert up to validateConfig: it ends there when the file is missing, the
\* settings stop it or the file is not valid
RaceRevertValidate ==
    \E project \in Projects, version \in Versions, env \in Envs :
        LET out == revertAction(fs, project, version, env)
            args == [NoInv EXCEPT !.op = "revert", !.project = project,
                                  !.version = version, !.env = env]
        IN IF out.pc = "done"
           THEN RaceStarted(args, out, NoCall)
           ELSE RaceStarted(args, Waits("revert_validated", <<>>, <<>>, "valid", NoRequest),
                            revertHolds(fs))

RaceRevertLoad ==
    /\ pc = "revert_validated"
    /\ RaceResumed(revertLoads(call, fs, inv.project, inv.version, inv.env))

\* the other invocation: a pull whose response arrives and whose saveConfig
\* writes its file
RacePullSaves ==
    \E project \in Projects, env \in Envs, outcome \in GetOutcomes :
        LET r == pullSettled(fs, dirs, project, env, outcome)
        IN /\ pc # "idle"
           /\ nOps < MaxOps
           /\ r.files # fs
           /\ fs' = r.files
           /\ dirs' = r.dirs
           /\ nOps' = nOps + 1
           /\ UNCHANGED <<pc, inv, requests, responses, reports, exitCode, validated,
                          call, ret>>

NextRace ==
    \/ RacePushLoad
    \/ RacePushValidate
    \/ RaceRevertValidate
    \/ RaceRevertLoad
    \/ RacePullSaves
    \/ RevertAnswer
    \/ PushResponse
    \/ RevertResponse

SpecRace == Init /\ [][NextRace]_vars

(***************************************************************************)
(* The library applied on its own: each function on arguments drawn from   *)
(* bounded sets, with no command running.                                  *)
(***************************************************************************)
\* the characters of the names: a letter, a hyphen and the characters the
\* path module and the filename pattern treat specially
NameChars == {"a", "-", "@", "/", ".", "\n"}

Names == UNION {[1..n -> NameChars] : n \in 1..MaxNameLen}

\* the versions: plain ones, one that ends like a file name, and ones with
\* the characters the path module and the filename pattern treat specially
LibVersions ==
    { <<"1">>, <<"1", ".", "0">>, <<"1", ".", "j", "s", "o", "n">>, <<"-">>,
      <<".", ".">>, <<"a", "/", "a">>, <<"/">>, <<"@">>, <<"\n">> }

NoFiles == [p \in {} |-> MalformedText]

InitLib ==
    /\ fs = NoFiles
    /\ dirs = Ancestors(Cwd)
    /\ pc = "idle"
    /\ inv = NoInv
    /\ requests = <<>>
    /\ responses = <<>>
    /\ reports = <<>>
    /\ exitCode = -1
    /\ validated = "none"
    /\ nOps = 0
    /\ call = NoCall
    /\ ret = NoCall

\* no application is under way
AtRest == call = NoCall

\* one application: to the state that holds its arguments and result
Applied(c, r) ==
    /\ call' = c
    /\ ret' = r
    /\ UNCHANGED <<fs, dirs, pc, inv, requests, responses, reports, exitCode, validated, nOps>>

\* parseFilename(path.basename(getConfigPath(project, version, env)))
ParseResolved ==
    /\ AtRest
    /\ \E project \in Names, version \in LibVersions, env \in Envs :
          Applied([fn |-> "parseFilename", project |-> project, version |-> version,
                   env |-> env],
                  parseFilename(LastNonEmpty(getConfigPath(project, version, env))))

\* the values of a JSON document's fields, one of each JSON type but boolean
LibValues ==
    {Str(<<"x">>), Num(<<"1">>), Obj(<<"c">>), [t |-> "null", v |-> <<>>],
     [t |-> "array", v |-> <<>>]}

LibKeys == {"name", "version", "config", "extra"}

\* the JSON objects over these keys and values
LibDocs == UNION {[K -> LibValues] : K \in SUBSET LibKeys}

LibTexts == {MalformedText} \cup {JsonText(d) : d \in LibDocs}

LibPath == getConfigPath(P_a, V_1, NoEnv)

\* validateConfig(filePath) on a file with the given text, or on no file
Validate ==
    /\ AtRest
    /\ \E exists \in BOOLEAN, text \in LibTexts :
          Applied([fn |-> "validateConfig", exists |-> exists, text |-> text],
                  validateConfig(IF exists THEN [p \in {LibPath} |-> text] ELSE NoFiles,
                                 LibPath))

\* the documents saved, and the one a file at the address held before
LibSaveDocs == {GoodDoc(P_a, V_1), NoConfigDoc(P_a, V_1)}
LibPriorText == JsonText(GoodDoc(P_b, V_2))

\* what is at the address before the save: nothing (not even CONFIG_DIR),
\* its directories, or the directories and a file
LibPriors == {"none", "dirs", "file"}

\* saveConfig(project, version, doc, env), then
\* loadConfig(getConfigPath(project, version, env)) when it returned
SaveLoad ==
    /\ AtRest
    /\ \E project \in Names, version \in LibVersions, env \in {NoEnv, E_s},
          doc \in LibSaveDocs, prior \in LibPriors :
        LET path == getConfigPath(project, version, env)
            files == IF prior = "file" THEN [p \in {path} |-> LibPriorText] ELSE NoFiles
            directories == IF prior = "none" THEN Ancestors(Cwd)
                           ELSE Ancestors(Dirname(path))
            saved == saveConfig(files, directories, project, Str(version), doc, env)
        IN Applied([fn |-> "saveConfig", project |-> project, version |-> version,
                    env |-> env, doc |-> doc, prior |-> prior],
                   [ok |-> saved.ok,
                    loaded |-> IF saved.ok THEN loadConfig(saved.files, path)
                               ELSE Threw("ENOENT"),
                    dirs |-> saved.dirs])

\* the tuples resolved in pairs: plain names, names with "@", the names of
\* the layout's own directories, and names the path module rewrites
LibTuples ==
    {<<p, v, e>> : p \in {<<"a">>, <<"a", "@", "a">>, <<"e", "n", "v">>, <<".", ".">>},
                   v \in {<<"1">>, <<"a", "@", "1">>, <<"s">>, <<"a", "/", "1">>},
                   e \in {NoEnv, <<"s">>, <<"a">>, <<"e", "n", "v">>, <<".", ".">>}}

\* getConfigPath applied to two tuples
ResolvePair ==
    /\ AtRest
    /\ \E t \in LibTuples, u \in LibTuples :
          Applied([fn |-> "getConfigPath", first |-> t, second |-> u],
                  [first |-> getConfigPath(t[1], t[2], t[3]),
                   second |-> getConfigPath(u[1], u[2], u[3])])

Returns ==
    /\ ~AtRest
    /\ call' = NoCall
    /\ ret' = NoCall
    /\ UNCHANGED <<fs, dirs, pc, inv, requests, responses, reports, exitCode, validated, nOps>>

NextLib ==
    \/ ParseResolved
    \/ Validate
    \/ SaveLoad
    \/ ResolvePair
    \/ Returns

SpecLib == InitLib /\ [][NextLib]_vars

(***************************************************************************)
(* What the claims speak of, stated without the operators of the commands. *)
(***************************************************************************)
LastReport == reports[Len(reports)]

Posted == \E i \in 1..Len(requests) : requests[i].method = "POST"

\* a text that is a document: JSON, exactly the fields name, version and
\* config, name and version strings and config an object
IsDocument(text) ==
    /\ text.json
    /\ DOMAIN text.obj = {"name", "version", "config"}
    /\ text.obj["name"].t = "string"
    /\ text.obj["version"].t = "string"
    /\ text.obj["config"].t = "object"

\* the local file push or revert works on
LocalFile ==
    IF inv.op = "push" THEN PathResolve(inv.file)
    ELSE getConfigPath(inv.project, inv.version, inv.env)

\* a name of the form <project>@<version>.json, both parts non-empty
MatchesPattern(name) ==
    \E i \in 2..Len(name) :
        /\ name[i] = "@"
        /\ i + Len(S_dotjson) < Len(name)
        /\ SubSeq(name, Len(name) - Len(S_dotjson) + 1, Len(name)) = S_dotjson

\* the settings hold a non-empty api
EndpointConfigured ==
    /\ RC_PATH \in DOMAIN fs
    /\ fs[RC_PATH].json
    /\ "api" \in DOMAIN fs[RC_PATH].obj
    /\ fs[RC_PATH].obj["api"].t = "string"
    /\ fs[RC_PATH].obj["api"].v # <<>>

IsSchemaValidationFailed(r) ==
    /\ r.level = "fail"
    /\ r.what \in {"Schema validation failed.", "Validation failed for local config file."}

IsInvalidFilenameFormat(r) ==
    /\ r.level = "fail"
    /\ r.what = "Invalid filename format. Use <project>@<version>.json"

IsMismatchWarning(r) ==
    /\ r.level = "warn"
    /\ r.what \in {"Mismatched config received.", "Warning: contains mismatched name/version."}

\* C1: push and revert issue their POST only after the local file has passed
\* schema validation in the same invocation; when the validation fails the
\* command stops with SchemaValidationFailed and has issued no request.
C1_PostOnlyAfterValidation ==
    inv.op \in {"push", "revert"} =>
        /\ Posted => (validated = "valid" /\ LocalFile \in DOMAIN fs /\ IsDocument(fs[LocalFile]))
        /\ validated = "invalid" =>
              /\ pc = "done"
              /\ requests = <<>>
              /\ reports # <<>>
              /\ IsSchemaValidationFailed(LastReport)
        /\ (pc = "done" /\ reports # <<>> /\ IsSchemaValidationFailed(LastReport)) =>
              (requests = <<>> /\ ~(LocalFile \in DOMAIN fs /\ IsDocument(fs[LocalFile])))

\* a push that found its file invalid and stopped before sending anything
C1_Witness ==
    /\ inv.op = "push"
    /\ pc = "done"
    /\ validated = "invalid"
    /\ requests = <<>>
    /\ IsSchemaValidationFailed(LastReport)

\* C2 (as stated): in every state, whatever the endpoint settings, push on a
\* basename that is not <project>@<version>.json fails with
\* InvalidFilenameFormat and issues no request.
C2_Original ==
    (inv.op = "push" /\ ~MatchesPattern(PathBasename(inv.file))) =>
        /\ pc = "done"
        /\ requests = <<>>
        /\ IsInvalidFilenameFormat(LastReport)

\* C2 (amended): push on a basename that is not <project>@<version>.json
\* issues no request; it fails with InvalidFilenameFormat when the settings
\* hold an api, and with the missing-api error when they do not.
C2_BadFilenameStopsPush ==
    (inv.op = "push" /\ ~MatchesPattern(PathBasename(inv.file))) =>
        /\ pc = "done"
        /\ requests = <<>>
        /\ Len(reports) = 1
        /\ IF EndpointConfigured
           THEN IsInvalidFilenameFormat(LastReport)
           ELSE LastReport.level = "fail" /\ LastReport.error = "ApiBaseNotSet"

\* a push of bad.json with the api configured
C2_Witness ==
    /\ inv.op = "push"
    /\ pc = "done"
    /\ ~MatchesPattern(PathBasename(inv.file))
    /\ EndpointConfigured
    /\ IsInvalidFilenameFormat(LastReport)
    /\ requests = <<>>

\* the name or the version embedded in the text differs from the pair asked for
EmbeddedDiffers(text, project, version) ==
    \/ ~("name" \in DOMAIN text.obj /\ text.obj["name"] = [t |-> "string", v |-> project])
    \/ ~("version" \in DOMAIN text.obj /\ text.obj["version"] = [t |-> "string", v |-> version])

\* the answers that are "y" once blanks are trimmed and case is folded
YAnswers == {<<"y">>, <<" ", "Y", " ">>}

\* C3 (as stated): revert enters the confirmation gate exactly when the local
\* file's embedded name or version differs from the requested pair.
C3_Original ==
    (inv.op = "revert" /\ LocalFile \in DOMAIN fs /\ fs[LocalFile].json) =>
        (inv.gate <=> EmbeddedDiffers(fs[LocalFile], inv.project, inv.version))

\* C3 (amended): revert enters the confirmation gate only for a local file
\* that passed validation, with the api configured, and then exactly when the
\* embedded name or version differs from the requested pair; nothing is sent
\* before the answer; an answer other than "y" (blanks trimmed, any case)
\* ends the invocation with status 0 and no request; the answer "y" is
\* followed by one POST whose body is the local document.
C3_GateBeforeNetwork ==
    inv.op = "revert" =>
        /\ inv.gate =>
              /\ LocalFile \in DOMAIN fs
              /\ IsDocument(fs[LocalFile])
              /\ EndpointConfigured
              /\ EmbeddedDiffers(fs[LocalFile], inv.project, inv.version)
              /\ IsMismatchWarning(reports[1])
        /\ (LocalFile \in DOMAIN fs /\ IsDocument(fs[LocalFile]) /\ EndpointConfigured) =>
              (inv.gate <=> EmbeddedDiffers(fs[LocalFile], inv.project, inv.version))
        /\ pc = "gate" => (requests = <<>> /\ responses = <<>>)
        /\ (inv.gate /\ pc # "gate") =>
              IF inv.answer \in YAnswers
              THEN /\ Len(requests) = 1
                   /\ requests[1].method = "POST"
                   /\ requests[1].body = fs[LocalFile].obj
              ELSE /\ pc = "done"
                   /\ requests = <<>>
                   /\ exitCode = 0
                   /\ LastReport.what = "Revert aborted."

\* a revert that went through the gate on the answer " Y " and sent its POST
C3_Witness ==
    /\ inv.op = "revert"
    /\ inv.gate
    /\ inv.answer = <<" ", "Y", " ">>
    /\ pc = "done"
    /\ Posted

\* a revert that was refused at the gate
C3_WitnessRefused ==
    /\ inv.op = "revert"
    /\ inv.gate
    /\ inv.answer = <<"y", "e", "s">>
    /\ pc = "done"
    /\ requests = <<>>

\* C4: when the remote answers a checkout with 404, the command ends with a
\* non-zero status, its failure report carries the status 404 and the hint that
\* the version may not exist remotely, and the local store is left as it was.
C4_Checkout404 ==
    [][(/\ inv.op = "checkout"
        /\ pc = "await_get"
        /\ Len(responses') = Len(responses) + 1
        /\ responses'[Len(responses')].status = 404)
       => /\ pc' = "done"
          /\ exitCode' # 0
          /\ LastReport'.level = "fail"
          /\ LastReport'.error = "AxiosError"
          /\ LastReport'.status = 404
          /\ LastReport'.hint
          /\ fs' = fs
          /\ dirs' = dirs]_vars

\* a checkout answered with 404, and no file at the address of the pair
C4_Witness ==
    /\ inv.op = "checkout"
    /\ pc = "done"
    /\ Len(responses) = 1
    /\ responses[1].status = 404
    /\ LastReport.hint
    /\ getConfigPath(inv.project, inv.version, NoEnv) \notin DOMAIN fs

\* C5: a revert whose local file does not exist fails with FileNotFound and
\* a non-zero status, and issues no request.
C5_RevertFileNotFound ==
    (inv.op = "revert" /\ LocalFile \notin DOMAIN fs) =>
        /\ pc = "done"
        /\ exitCode # 0
        /\ requests = <<>>
        /\ responses = <<>>
        /\ reports = <<Report("fail", "Local config file not found", "", 0, FALSE)>>

\* a revert of a version that is not in the store, with the api configured
C5_Witness ==
    /\ inv.op = "revert"
    /\ EndpointConfigured
    /\ LocalFile \notin DOMAIN fs
    /\ pc = "done"
    /\ exitCode = 1

\* a name that is one path segment and names itself: not empty, no "/",
\* neither "." nor ".."
PlainName(s) ==
    /\ s # <<>>
    /\ \A i \in 1..Len(s) : s[i] # "/"
    /\ s \notin {<<".">>, <<".", ".">>}

NoSeparator(s) == \A i \in 1..Len(s) : s[i] # "/"

\* the version of a received document as it appears in a file name
Rendered(obj) ==
    IF "version" \notin DOMAIN obj THEN <<"u", "n", "d", "e", "f", "i", "n", "e", "d">>
    ELSE obj["version"].v

\* <root>/<project>/env/<env>/<project>@<version>.json and
\* <root>/<project>/<project>@<version>.json, segment by segment
EnvLayoutPath(project, env, version) ==
    << <<"w">>, <<"c", "o", "n", "f", "i", "g", "s">>, project, <<"e", "n", "v">>, env,
       project \o <<"@">> \o version \o <<".", "j", "s", "o", "n">> >>

DefaultLayoutPath(project, version) ==
    << <<"w">>, <<"c", "o", "n", "f", "i", "g", "s">>, project,
       project \o <<"@">> \o version \o <<".", "j", "s", "o", "n">> >>

\* the text holds the name, version and config of the received document
Holds(text, obj) ==
    /\ text.json
    /\ DOMAIN text.obj = DOMAIN obj \cap {"name", "version", "config"}
    /\ \A k \in DOMAIN text.obj : text.obj[k] = obj[k]

\* the step in which the command that waits for its GET receives a document
Received(op) ==
    /\ inv.op = op
    /\ pc = "await_get"
    /\ Len(responses') = Len(responses) + 1
    /\ responses'[Len(responses')].kind = "ok"
    /\ ~responses'[Len(responses')].data.isNull

\* every file but the one at path is as it was
OnlyWrites(path) ==
    \A p \in (DOMAIN fs \cup DOMAIN fs') \ {path} :
        p \in DOMAIN fs /\ p \in DOMAIN fs' /\ fs'[p] = fs[p]

\* C6 (as stated): whatever the environment and the returned version, a pull
\* with an environment writes the received document to
\* <root>/<project>/env/<env>/<project>@<returned version>.json and leaves
\* every other file, the default-environment ones included, as it was.
C6_Original ==
    [][(Received("pull") /\ inv.env # <<>>)
       => LET obj == responses'[Len(responses')].data.obj
              path == EnvLayoutPath(inv.project, inv.env, Rendered(obj))
          IN /\ path \in DOMAIN fs'
             /\ Holds(fs'[path], obj)
             /\ OnlyWrites(path)]_vars

\* C6 (amended): when the project and the environment are plain names and
\* the returned version has no "/", a pull with an environment writes the
\* received document to <root>/<project>/env/<env>/<project>@<returned
\* version>.json and leaves every other file, the default-environment ones
\* included, as it was.
C6_PullWritesEnvPath ==
    [][(/\ Received("pull")
        /\ inv.env # <<>>
        /\ PlainName(inv.project)
        /\ PlainName(inv.env)
        /\ NoSeparator(Rendered(responses'[Len(responses')].data.obj)))
       => LET obj == responses'[Len(responses')].data.obj
              path == EnvLayoutPath(inv.project, inv.env, Rendered(obj))
          IN /\ path \in DOMAIN fs'
             /\ Holds(fs'[path], obj)
             /\ OnlyWrites(path)]_vars

\* a pull into the environment "s" that stored version 2 there, with no
\* default-environment file of that version
C6_Witness ==
    /\ inv.op = "pull"
    /\ inv.env = <<"s">>
    /\ pc = "done"
    /\ Len(responses) = 1
    /\ responses[1].kind = "ok"
    /\ EnvLayoutPath(inv.project, inv.env, <<"2">>) \in DOMAIN fs
    /\ DefaultLayoutPath(inv.project, <<"2">>) \notin DOMAIN fs

\* the fatal failure classes: InvalidFilenameFormat, SchemaValidationFailed
\* before the network call, FileNotFound, TransferFailed
IsFatalFailure(r) ==
    /\ r.level = "fail"
    /\ \/ IsInvalidFilenameFormat(r)
       \/ IsSchemaValidationFailed(r)
       \/ r.what = "Local config file not found"
       \/ r.error = "FileNotFound"
       \/ r.error = "AxiosError"

\* C7: every invocation of pull, push, checkout or revert that ends in a
\* fatal failure terminates with a non-zero status.
C7_FatalFailureExitsNonZero ==
    (/\ inv.op \in {"pull", "push", "checkout", "revert"}
     /\ pc = "done"
     /\ reports # <<>>
     /\ IsFatalFailure(LastReport))
    => exitCode # 0

\* C8: when pull receives a document whose name differs from the requested
\* project, the document is persisted and a mismatch warning is reported.
C8_PullWarnsOnNameMismatch ==
    (/\ inv.op = "pull"
     /\ pc = "done"
     /\ Len(responses) = 1
     /\ responses[1].kind = "ok"
     /\ ~responses[1].data.isNull
     /\ NoSeparator(Rendered(responses[1].data.obj))
     /\ ~("name" \in DOMAIN responses[1].data.obj
          /\ responses[1].data.obj["name"] = [t |-> "string", v |-> inv.project]))
    => /\ exitCode = 0
       /\ \E p \in DOMAIN fs : Holds(fs[p], responses[1].data.obj)
       /\ \E i \in 1..Len(reports) : IsMismatchWarning(reports[i])

\* the document received by the command that has ended differs, in name or
\* in version, from the pair asked for
ReceivedDiffers ==
    EmbeddedDiffers([json |-> TRUE, obj |-> responses[1].data.obj], inv.project, inv.version)

\* the command that has ended received a document
GotDocument(op) ==
    /\ inv.op = op
    /\ pc = "done"
    /\ Len(responses) = 1
    /\ responses[1].kind = "ok"
    /\ ~responses[1].data.isNull

\* C9 (as stated): whatever the returned version, a checkout that receives a
\* document differing in name or version from the requested pair warns of the
\* mismatch, does not fail, and persists the document at the address built
\* from the returned version under the requested project.
C9_Original ==
    (GotDocument("checkout") /\ ReceivedDiffers) =>
        LET obj == responses[1].data.obj
            path == DefaultLayoutPath(inv.project, Rendered(obj))
        IN /\ \E i \in 1..Len(reports) : IsMismatchWarning(reports[i])
           /\ exitCode = 0
           /\ \A i \in 1..Len(reports) : reports[i].level # "fail"
           /\ path \in DOMAIN fs
           /\ Holds(fs[path], obj)

\* C9 (amended): when the project is a plain name and the returned version
\* has no "/", a checkout that receives a document differing in name or
\* version from the requested pair warns of the mismatch first, does not
\* fail, and persists the document at
\* <root>/<project>/<project>@<returned version>.json.
C9_CheckoutMismatchProceeds ==
    (/\ GotDocument("checkout")
     /\ ReceivedDiffers
     /\ PlainName(inv.project)
     /\ NoSeparator(Rendered(responses[1].data.obj)))
    => LET obj == responses[1].data.obj
           path == DefaultLayoutPath(inv.project, Rendered(obj))
       IN /\ IsMismatchWarning(reports[1])
          /\ exitCode = 0
          /\ \A i \in 1..Len(reports) : reports[i].level # "fail"
          /\ path \in DOMAIN fs
          /\ Holds(fs[path], obj)

\* a checkout of version 1 that was answered with version 2 and stored it
C9_Witness ==
    /\ GotDocument("checkout")
    /\ inv.version = <<"1">>
    /\ Rendered(responses[1].data.obj) = <<"2">>
    /\ IsMismatchWarning(reports[1])
    /\ DefaultLayoutPath(inv.project, <<"2">>) \in DOMAIN fs
    /\ exitCode = 0

\* the three ways a pull ends
PullSucceeded == reports = <<Report("succeed", "Config saved", "", 0, FALSE)>>

PullWarned ==
    reports = <<Report("warn", "Config pulled but failed schema validation.", "", 0, FALSE)>>

PullFailed ==
    /\ Len(reports) = 1
    /\ reports[1].level = "fail"
    /\ reports[1].what = "Failed to fetch config."

C11_Original ==
    (/\ call.fn = "parseFilename"
     /\ \A i \in 1..Len(call.project) : call.project[i] # "@"
     /\ \A i \in 1..Len(call.version) : call.version[i] # "@")
    => ret = [ok |-> TRUE, project |-> call.project, version |-> call.version]

\* a character of a name that the round trip keeps: not "@", not the path
\* separator, not a line terminator
KeptChar(c) == c \notin {"@", "/", "\n", "\r"}

\* C11 (amended): for all non-empty project and version strings that contain
\* no "@", no "/" and no line terminator, parsing the basename of the
\* resolved address returns exactly (project, version), for every environment.
C11_RoundTrip ==
    (/\ call.fn = "parseFilename"
     /\ \A i \in 1..Len(call.project) : KeptChar(call.project[i])
     /\ \A i \in 1..Len(call.version) : KeptChar(call.version[i]))
    => ret = [ok |-> TRUE, project |-> call.project, version |-> call.version]

\* the round trip of ("a-", "1.0") through an environment address
C11_Witness ==
    /\ call.fn = "parseFilename"
    /\ call.project = <<"a", "-">>
    /\ call.version = <<"1", ".", "0">>
    /\ call.env = <<"s">>
    /\ ret.ok
    /\ ret.project = <<"a", "-">>
    /\ ret.version = <<"1", ".", "0">>

\* validate was applied to a file that holds a JSON object
ValidatedObject ==
    /\ call.fn = "validateConfig"
    /\ call.exists
    /\ call.text.json

\* C12: for every document whose top-level keys are exactly name, version
\* and config, with name and version strings and config an object, validate
\* returns valid = true.
C12_WellFormedIsValid ==
    (ValidatedObject /\ IsDocument(call.text)) => (ret.valid /\ ret.errors = <<>>)

\* validate applied to a document of exactly the three fields
C12_Witness ==
    /\ ValidatedObject
    /\ DOMAIN call.text.obj = {"name", "version", "config"}
    /\ IsDocument(call.text)
    /\ ret.valid

\* C13: for every document that lacks one of name, version, config, or has
\* a top-level key other than these three, validate returns valid = false
\* with at least one error whose location pointer is the root.
C13_MissingOrExtraIsInvalid ==
    (/\ ValidatedObject
     /\ \/ {"name", "version", "config"} \ DOMAIN call.text.obj # {}
        \/ DOMAIN call.text.obj \ {"name", "version", "config"} # {})
    => /\ ~ret.valid
       /\ \E i \in 1..Len(ret.errors) : ret.errors[i].pointer = "/"

\* validate applied to a document that has the three fields, well typed,
\* and one more
C13_Witness ==
    /\ ValidatedObject
    /\ DOMAIN call.text.obj = {"name", "version", "config", "extra"}
    /\ call.text.obj["name"].t = "string"
    /\ call.text.obj["version"].t = "string"
    /\ call.text.obj["config"].t = "object"
    /\ ~ret.valid
    /\ Len(ret.errors) = 1
    /\ ret.errors[1].pointer = "/"

\* C14: validate returns a result for every state of the file: a missing
\* file yields valid = false with exactly one "File not found" message, and
\* a file whose text is not JSON yields valid = false with exactly one
\* "Invalid JSON format." message, which is another message.
C14_ValidateIsTotal ==
    call.fn = "validateConfig" =>
        /\ ret.valid \in BOOLEAN
        /\ ~ret.valid => Len(ret.errors) >= 1
        /\ ~call.exists =>
              /\ ~ret.valid
              /\ Len(ret.errors) = 1
              /\ ret.errors[1].keyword = "File not found"
        /\ (call.exists /\ ~call.text.json) =>
              /\ ~ret.valid
              /\ Len(ret.errors) = 1
              /\ ret.errors[1].keyword = "Invalid JSON format."
              /\ ret.errors[1].keyword # "File not found"

\* validate applied to a path where there is no file
C14_Witness ==
    /\ call.fn = "validateConfig"
    /\ ~call.exists
    /\ ~ret.valid
    /\ ret.errors[1].keyword = "File not found"

\* validate applied to a file whose text is not JSON
C14_WitnessMalformed ==
    /\ call.fn = "validateConfig"
    /\ call.exists
    /\ ~call.text.json
    /\ ret.errors[1].keyword = "Invalid JSON format."

\* C16 (as stated): for every project and version, save followed by load of
\* the resolved address returns the document, whatever was at the address
\* before, and the directories of the address exist afterwards.
C16_Original ==
    call.fn = "saveConfig" =>
        /\ ret.ok
        /\ ret.loaded = [ok |-> TRUE, err |-> "", val |-> call.doc]
        /\ Ancestors(Dirname(getConfigPath(call.project, call.version, call.env)))
              \subseteq ret.dirs

\* C16 (amended): for every project and version without "/", save followed
\* by load of the resolved address returns the document, whether or not a
\* file or its directories existed at that address before: the missing
\* directories are created and an existing file is overwritten.
C16_SaveThenLoad ==
    (/\ call.fn = "saveConfig"
     /\ NoSeparator(call.project)
     /\ NoSeparator(call.version))
    => /\ ret.ok
       /\ ret.loaded = [ok |-> TRUE, err |-> "", val |-> call.doc]
       /\ Ancestors(Dirname(getConfigPath(call.project, call.version, call.env)))
             \subseteq ret.dirs

\* a save into an environment with nothing there before, loaded back
C16_Witness ==
    /\ call.fn = "saveConfig"
    /\ call.prior = "none"
    /\ call.env = <<"s">>
    /\ call.project = <<"a">>
    /\ call.version = <<"1", ".", "0">>
    /\ ret.ok
    /\ ret.loaded.val = call.doc
    /\ EnvLayoutPath(<<"a">>, <<"s">>, <<"1", ".", "0">>) \in
          {p \o <<<<"a", "@", "1", ".", "0", ".", "j", "s", "o", "n">>>> : p \in ret.dirs}

\* a save over a file that held another document, loaded back
C16_WitnessOverwrite ==
    /\ call.fn = "saveConfig"
    /\ call.prior = "file"
    /\ NoSeparator(call.project)
    /\ NoSeparator(call.version)
    /\ ret.ok
    /\ ret.loaded.val = call.doc

\* the step stays within the running invocation
SameInvocation == nOps' = nOps

\* a response that is a transfer failure: another status than 2xx, or none
TransferFailure(o) == o.kind \in {"http", "network"}

\* C15: an invocation of pull, push, checkout or revert issues at most one
\* HTTP request, and once a request has failed the invocation has ended and
\* issues no further request.
C15_SingleShot ==
    /\ [](inv.op \in {"pull", "push", "checkout", "revert"} =>
            /\ Len(requests) <= 1
            /\ Len(responses) <= Len(requests)
            /\ (\E i \in 1..Len(responses) : TransferFailure(responses[i])) => pc = "done")
    /\ [][(SameInvocation /\ responses # <<>>) => requests' = requests]_vars

\* a pull whose only request failed, and which ended there
C15_Witness ==
    /\ inv.op = "pull"
    /\ pc = "done"
    /\ Len(requests) = 1
    /\ Len(responses) = 1
    /\ TransferFailure(responses[1])

\* C17: no step of any command deletes a file: an address that holds a text
\* holds one in the next state, and so in every later state.
C17_NoFileDeleted ==
    [][\A p \in DOMAIN fs : p \in DOMAIN fs']_vars

\* a checkout that stored version 2 next to the version 1 that was there, and
\* the settings
C17_Witness ==
    /\ inv.op = "checkout"
    /\ pc = "done"
    /\ DefaultLayoutPath(<<"a">>, <<"1">>) \in DOMAIN fs
    /\ DefaultLayoutPath(<<"a">>, <<"2">>) \in DOMAIN fs
    /\ fs[DefaultLayoutPath(<<"a">>, <<"2">>)] # fs[DefaultLayoutPath(<<"a">>, <<"1">>)]
    /\ RC_PATH \in DOMAIN fs

\* the settings record: the text of the settings file, or none
Settings(files) ==
    IF << <<"w">>, <<".", "c", "o", "r", "e", "v", "r", "c", ".", "j", "s", "o", "n">> >>
          \in DOMAIN files
    THEN files[<< <<"w">>, <<".", "c", "o", "r", "e", "v", "r", "c", ".", "j", "s", "o", "n">> >>]
    ELSE [json |-> FALSE, obj |-> << >>]

\* C18: the settings record changes only in a step of init.
C18_SettingsChangeOnlyInInit ==
    [][Settings(fs') # Settings(fs) => (inv'.op = "init" /\ nOps' = nOps + 1)]_vars

\* C19: init with only a token stores that token, trimmed, in the settings
\* record and leaves the api stored there as it was.
C19_TokenOnlyKeepsApi ==
    [][(/\ nOps' = nOps + 1
        /\ inv'.op = "init"
        /\ inv'.api = <<>>
        /\ inv'.token # <<>>)
       => /\ Settings(fs').json
          /\ "token" \in DOMAIN Settings(fs').obj
          /\ Settings(fs').obj["token"] = [t |-> "string", v |-> Trim(inv'.token)]
          /\ "api" \in DOMAIN Settings(fs).obj <=> "api" \in DOMAIN Settings(fs').obj
          /\ "api" \in DOMAIN Settings(fs).obj =>
                Settings(fs').obj["api"] = Settings(fs).obj["api"]
          /\ OnlyWrites(RC_PATH)]_vars

\* after two inits, the first with an api and the second with only a token,
\* the settings hold the api of the first and the token of the second
C19_Witness ==
    /\ nOps = 2
    /\ inv.op = "init"
    /\ inv.api = <<>>
    /\ inv.token = <<"t", " ">>
    /\ Settings(fs).obj = [api |-> [t |-> "string", v |-> <<"h", "/">>],
                           token |-> [t |-> "string", v |-> <<"t">>]]

\* C20: every request of push carries the action marker "push", every
\* request of revert the marker "revert", and a request of pull, push or
\* revert carries the environment header, with the supplied value, exactly
\* when an environment was supplied.
C20_RequestTagging ==
    \A i \in 1..Len(requests) :
        /\ inv.op = "push" =>
              /\ requests[i].method = "POST"
              /\ "x-corev-action" \in DOMAIN requests[i].headers
              /\ requests[i].headers["x-corev-action"] = <<"p", "u", "s", "h">>
        /\ inv.op = "revert" =>
              /\ requests[i].method = "POST"
              /\ "x-corev-action" \in DOMAIN requests[i].headers
              /\ requests[i].headers["x-corev-action"] = <<"r", "e", "v", "e", "r", "t">>
        /\ inv.op \in {"pull", "push", "revert"} =>
              /\ "x-corev-env" \in DOMAIN requests[i].headers <=> inv.env # <<>>
              /\ inv.env # <<>> => requests[i].headers["x-corev-env"] = inv.env

\* a revert into the environment "s" that sent its POST
C20_Witness ==
    /\ inv.op = "revert"
    /\ inv.env = <<"s">>
    /\ Len(requests) = 1
    /\ requests[1].method = "POST"
    /\ requests[1].headers["x-corev-action"] = <<"r", "e", "v", "e", "r", "t">>
    /\ requests[1].headers["x-corev-env"] = <<"s">>

\* the addresses the commands of the model are given: every project,
\* version and environment, the absent environment included
GivenTuples ==
    {<<p, v, e>> : p \in {<<"a">>, <<"b">>},
                   v \in {<<"1">>, <<"2">>},
                   e \in {<<>>, <<"s">>, <<".", ".">>}}

\* the file stored for the tuple is as it was
TupleUnchanged(t) ==
    LET path == getConfigPath(t[1], t[2], t[3])
    IN /\ path \in DOMAIN fs <=> path \in DOMAIN fs'
       /\ path \in DOMAIN fs => fs'[path] = fs[path]

\* the tuple is made of plain names: project and environment one path
\* segment each (the environment may be absent), the version without "/"
PlainTuple(t) ==
    /\ PlainName(t[1])
    /\ NoSeparator(t[2])
    /\ t[3] = <<>> \/ PlainName(t[3])

\* C21 (as stated): whatever the environment and the returned version, a
\* pull changes at most one file, the one at resolve(project, returned
\* version, environment), and the file stored for every other project,
\* version or environment is left unchanged.
C21_Original ==
    [][Received("pull")
       => LET v == Rendered(responses'[Len(responses')].data.obj)
          IN /\ OnlyWrites(getConfigPath(inv.project, v, inv.env))
             /\ \A t \in GivenTuples \ {<<inv.project, v, inv.env>>} :
                   PlainTuple(t) => TupleUnchanged(t)]_vars

\* C21 (amended): a pull changes at most one file, the one at
\* resolve(project, returned version, environment); when the project, the
\* returned version and the environment are plain names, the file stored for
\* every other tuple of plain names is left unchanged.
C21_PullWritesOneFile ==
    [][Received("pull")
       => LET v == Rendered(responses'[Len(responses')].data.obj)
          IN /\ OnlyWrites(getConfigPath(inv.project, v, inv.env))
             /\ PlainTuple(<<inv.project, v, inv.env>>) =>
                   \A t \in GivenTuples \ {<<inv.project, v, inv.env>>} :
                       PlainTuple(t) => TupleUnchanged(t)]_vars

\* a pull that stored version 2 and left the file of version 1 as it was,
\* a document of version 1
C21_Witness ==
    /\ GotDocument("pull")
    /\ inv.env = <<>>
    /\ Rendered(responses[1].data.obj) = <<"2">>
    /\ DefaultLayoutPath(<<"a">>, <<"2">>) \in DOMAIN fs
    /\ Holds(fs[DefaultLayoutPath(<<"a">>, <<"2">>)], responses[1].data.obj)
    /\ DefaultLayoutPath(<<"a">>, <<"1">>) \in DOMAIN fs
    /\ fs[DefaultLayoutPath(<<"a">>, <<"1">>)].json
    /\ fs[DefaultLayoutPath(<<"a">>, <<"1">>)].obj["version"].v = <<"1">>

\* the command waits for a response or for the answer to the prompt
Waiting == pc \in {"await_get", "await_post", "gate"}

\* C22: every invocation of pull, push, checkout or revert terminates with a
\* report, given that each network call returns or fails and the prompt of
\* revert is answered: no command waits for ever, and a command that is not
\* waiting has ended and has printed its report.
C22_Terminates ==
    /\ [](inv.op \in {"pull", "push", "checkout", "revert"} =>
            /\ pc = "done" \/ Waiting
            /\ pc = "done" =>
                  /\ reports # <<>>
                  /\ LastReport.level \in {"succeed", "warn", "fail", "info"}
                  /\ exitCode \in {0, 1})
    /\ []<>(~Waiting)

\* a revert that waited at the prompt, then for its POST, and ended
C22_Witness ==
    /\ inv.op = "revert"
    /\ inv.gate
    /\ pc = "done"
    /\ Len(responses) = 1
    /\ reports # <<>>
    /\ LastReport.level = "succeed"

\* the document the command sent
Transmitted == [json |-> TRUE, obj |-> requests[1].body]

\* C23: under concurrent invocations on the same directory, the document
\* that push or revert transmits passed schema validation: no write of
\* another invocation to the same file lets either transmit a document that
\* is not valid.
C23_TransmitsValidated ==
    (inv.op \in {"push", "revert"} /\ Posted) => IsDocument(Transmitted)

\* the step in which a pull or a checkout receives a document
Fetched == Received("pull") \/ Received("checkout")

\* the files the step wrote: those that are new or whose text changed
Written == {p \in DOMAIN fs' : p \notin DOMAIN fs \/ fs'[p] # fs[p]}

\* the file name <project>@<version>.json
NamedFor(project, version) == project \o <<"@">> \o version \o <<".", "j", "s", "o", "n">>

\* the version in the file's name and the version inside the file agree
VersionsAgree(path, text, project) ==
    /\ text.json
    /\ "version" \in DOMAIN text.obj
    /\ path[Len(path)] = NamedFor(project, text.obj["version"].v)

\* C24 (as stated): whatever document is received, every file that pull or
\* checkout writes holds a document whose embedded version is the version in
\* the file's name.
C24_Original ==
    [][Fetched => \A p \in Written : VersionsAgree(p, fs'[p], inv.project)]_vars

\* C24 (amended): when the received document has a version without "/", pull
\* and checkout write the file <project>@<version>.json and the version
\* inside it is the received one; when the received document has no version,
\* they write <project>@undefined.json, a file with no version inside, and
\* warn that it failed schema validation.
C24_StoredVersionAgrees ==
    [][Fetched
       => LET obj == responses'[Len(responses')].data.obj
              v == Rendered(obj)
              path == getConfigPath(inv.project, v, inv.env)
          IN /\ ("version" \in DOMAIN obj /\ NoSeparator(v)) =>
                    /\ path \in DOMAIN fs'
                    /\ VersionsAgree(path, fs'[path], inv.project)
                    /\ fs'[path].obj["version"] = obj["version"]
                    /\ Written \subseteq {path}
             /\ "version" \notin DOMAIN obj =>
                    /\ path \in DOMAIN fs'
                    /\ path[Len(path)] = NamedFor(inv.project, <<"u", "n", "d", "e", "f", "i", "n", "e", "d">>)
                    /\ "version" \notin DOMAIN fs'[path].obj
                    /\ validated' = "invalid"
                    /\ reports'[Len(reports')].level = "warn"]_vars

\* a pull into an environment that stored version 2 in a file named for
\* version 2
C24_Witness ==
    /\ GotDocument("pull")
    /\ inv.env = <<"s">>
    /\ responses[1].data.obj = GoodDoc(<<"a">>, <<"2">>)
    /\ EnvLayoutPath(<<"a">>, <<"s">>, <<"2">>) \in DOMAIN fs
    /\ fs[EnvLayoutPath(<<"a">>, <<"s">>, <<"2">>)].obj["version"] = Str(<<"2">>)

\* a checkout that received a document without version and stored it
C24_WitnessNoVersion ==
    /\ GotDocument("checkout")
    /\ "version" \notin DOMAIN responses[1].data.obj
    /\ DefaultLayoutPath(<<"a">>, <<"u", "n", "d", "e", "f", "i", "n", "e", "d">>) \in DOMAIN fs
    /\ validated = "invalid"

\* the received document has name, version and config of the right types,
\* whatever else it has
HasTheThree(obj) ==
    /\ {"name", "version", "config"} \subseteq DOMAIN obj
    /\ obj["name"].t = "string"
    /\ obj["version"].t = "string"
    /\ obj["config"].t = "object"

\* C25: the document that pull or checkout persists has no top-level key
\* other than name, version and config, and the validation after the fetch
\* reports no extra field: a received document that has the three fields and
\* others besides is stored without the others and found valid.
C25_PersistsThreeFields ==
    [][Fetched
       => LET obj == responses'[Len(responses')].data.obj
          IN /\ \A p \in Written :
                    /\ fs'[p].json
                    /\ DOMAIN fs'[p].obj \subseteq {"name", "version", "config"}
                    /\ \A i \in 1..Len(validateConfig(fs', p).errors) :
                          validateConfig(fs', p).errors[i].keyword # "additionalProperties"
             /\ (HasTheThree(obj) /\ NoSeparator(obj["version"].v)) =>
                    /\ validated' = "valid"
                    /\ reports'[Len(reports')].level = "succeed"]_vars

\* a pull that received a document with a fourth field, stored the three
\* and found the file valid
C25_Witness ==
    /\ GotDocument("pull")
    /\ "extra" \in DOMAIN responses[1].data.obj
    /\ validated = "valid"
    /\ LastReport.level = "succeed"
    /\ \E p \in DOMAIN fs :
          /\ fs[p].json
          /\ DOMAIN fs[p].obj = {"name", "version", "config"}
          /\ Holds(fs[p], responses[1].data.obj)

\* the part of a file name before its "@"
BeforeAt(name) ==
    CHOOSE q \in {SubSeq(name, 1, i - 1) : i \in {j \in 1..Len(name) : name[j] = "@"}} : TRUE

\* the part of a file name between its "@" and ".json"
AfterAt(name) ==
    CHOOSE v \in {SubSeq(name, i + 1, Len(name) - 5) : i \in {j \in 1..Len(name) : name[j] = "@"}} :
        TRUE

\* the stored api without the "/" it ends with
StoredApi ==
    LET api == fs[RC_PATH].obj["api"].v
        ends == {i \in 0..Len(api) : i = 0 \/ api[i] # "/"}
    IN SubSeq(api, 1, CHOOSE i \in ends : \A j \in ends : j <= i)

\* <api>/configs/<project>
ConfigsAddress(project) ==
    StoredApi \o <<"/", "c", "o", "n", "f", "i", "g", "s", "/">> \o project

\* push on a well-named file that holds a document, with the api configured
PushOfDocument ==
    /\ inv.op = "push"
    /\ MatchesPattern(PathBasename(inv.file))
    /\ EndpointConfigured
    /\ LocalFile \in DOMAIN fs
    /\ IsDocument(fs[LocalFile])

\* C26: push does not compare the project and version of the file name with
\* the name and version inside the file: a valid document is sent, whatever
\* its embedded name and version, in one POST to the address of the file
\* name's project, with no warning and no prompt.
C26_PushIgnoresEmbedded ==
    PushOfDocument =>
        /\ pc \in {"await_post", "done"}
        /\ Len(requests) = 1
        /\ requests[1].method = "POST"
        /\ requests[1].url = ConfigsAddress(BeforeAt(PathBasename(inv.file)))
        /\ requests[1].body = fs[LocalFile].obj
        /\ \A i \in 1..Len(reports) : reports[i].level # "warn"
        /\ ~inv.gate
        /\ inv.answer = <<>>
        /\ validated = "valid"

\* a push of a file named for project a, version 1 that holds a document of
\* another name, sent as it is and accepted
C26_Witness ==
    /\ PushOfDocument
    /\ BeforeAt(PathBasename(inv.file)) = <<"a">>
    /\ AfterAt(PathBasename(inv.file)) = <<"1">>
    /\ fs[LocalFile].obj["name"] # Str(<<"a">>)
    /\ pc = "done"
    /\ LastReport.level = "succeed"

\* the same with a document of another version
C26_WitnessVersion ==
    /\ PushOfDocument
    /\ AfterAt(PathBasename(inv.file)) = <<"1">>
    /\ fs[LocalFile].obj["version"] = Str(<<"2">>)
    /\ fs[LocalFile].obj["name"] = Str(<<"a">>)
    /\ pc = "done"
    /\ LastReport.level = "succeed"

\* the answer is a single y or Y, with blanks around it or none
IsYes(answer) ==
    LET letters == {i \in 1..Len(answer) : answer[i] # " "}
    IN /\ Cardinality(letters) = 1
       /\ \A i \in letters : answer[i] \in {"y", "Y"}

\* C27: at revert's prompt the revert goes on to its POST only if the
\* answer, trimmed and lower-cased, is exactly "y"; every other answer, the
\* empty one and "yes" included, ends the command with no request and exit
\* status 0.
C27_OnlyYProceeds ==
    [][(pc = "gate" /\ inv.op = "revert")
       => IF IsYes(inv'.answer)
          THEN /\ pc' = "await_post"
               /\ requests' = <<inv.pending>>
               /\ requests'[1].method = "POST"
          ELSE /\ pc' = "done"
               /\ requests' = <<>>
               /\ exitCode' = 0
               /\ reports'[Len(reports')].level = "info"]_vars

\* a revert whose prompt was answered "yes": aborted, nothing sent
C27_Witness ==
    /\ inv.op = "revert"
    /\ inv.gate
    /\ inv.answer = <<"y", "e", "s">>
    /\ pc = "done"
    /\ requests = <<>>
    /\ exitCode = 0

\* a revert whose prompt was answered " Y ": its POST is under way
C27_WitnessYes ==
    /\ inv.op = "revert"
    /\ inv.gate
    /\ inv.answer = <<" ", "Y", " ">>
    /\ pc = "await_post"
    /\ Len(requests) = 1

\* the step that is an init given an api
InitWithApi ==
    /\ nOps' = nOps + 1
    /\ inv'.op = "init"
    /\ inv'.api # <<>>

\* C28: init with an api replaces the whole settings record: with api and
\* token the record holds both, the api trimmed and lower-cased and the token
\* trimmed; with the api alone it holds the api and nothing else, and a
\* token stored before is gone.
C28_InitReplacesRecord ==
    [][InitWithApi
       => /\ Settings(fs').json
          /\ DOMAIN Settings(fs').obj =
                {"api"} \cup (IF inv'.token # <<>> THEN {"token"} ELSE {})
          /\ Settings(fs').obj["api"] = [t |-> "string", v |-> ToLowerCase(Trim(inv'.api))]
          /\ inv'.token # <<>> =>
                Settings(fs').obj["token"] = [t |-> "string", v |-> Trim(inv'.token)]
          /\ OnlyWrites(RC_PATH)]_vars

\* after an init with a token and then an init with the api alone, the
\* settings hold the api, lower-cased and trimmed, and no token
C28_Witness ==
    /\ nOps = 2
    /\ inv.op = "init"
    /\ inv.api = <<" ", "H", "/">>
    /\ inv.token = <<>>
    /\ Settings(fs).obj = [api |-> [t |-> "string", v |-> <<"h", "/">>]]

\* after an init with both, the settings hold both
C28_WitnessBoth ==
    /\ inv.op = "init"
    /\ inv.api = <<" ", "H", "/">>
    /\ inv.token = <<"t", " ">>
    /\ Settings(fs).obj = [api |-> [t |-> "string", v |-> <<"h", "/">>],
                           token |-> [t |-> "string", v |-> <<"t">>]]

\* C29: push and revert only read the local store: whatever their outcome,
\* success, failure or a refused confirmation, no step of theirs creates,
\* overwrites or deletes a file or a directory.
C29_PushRevertReadOnly ==
    [][inv'.op \in {"push", "revert"} => (fs' = fs /\ dirs' = dirs)]_vars

\* a revert that was refused at the prompt, after an earlier command: the
\* file it was to send is still there
C29_Witness ==
    /\ nOps = 2
    /\ inv.op = "revert"
    /\ inv.gate
    /\ ~IsYes(inv.answer)
    /\ pc = "done"
    /\ LocalFile \in DOMAIN fs

\* a push that was sent and accepted: the file is as validation found it
C29_WitnessPush ==
    /\ inv.op = "push"
    /\ pc = "done"
    /\ LastReport.level = "succeed"
    /\ LocalFile \in DOMAIN fs
    /\ requests[1].body = fs[LocalFile].obj

\* a tuple the claim is about: project and version non-empty, without "/",
\* neither "." nor ".."; the environment absent or such a name
ResolvableTuple(t) ==
    /\ PlainName(t[1])
    /\ PlainName(t[2])
    /\ t[3] = <<>> \/ PlainName(t[3])

\* C30: resolve is injective on tuples of non-empty strings that contain no
\* path separator and are not "." or "..": distinct (project, version,
\* environment) tuples, the absent environment included, resolve to distinct
\* paths.
C30_ResolveInjective ==
    (/\ call.fn = "getConfigPath"
     /\ ResolvableTuple(call.first)
     /\ ResolvableTuple(call.second)
     /\ call.first # call.second)
    => ret.first # ret.second

\* the default-environment address of (a, 1) and its address in the
\* environment s, resolved to two paths
C30_Witness ==
    /\ call.fn = "getConfigPath"
    /\ call.first = <<<<"a">>, <<"1">>, <<>>>>
    /\ call.second = <<<<"a">>, <<"1">>, <<"s">>>>
    /\ ret.first = DefaultLayoutPath(<<"a">>, <<"1">>)
    /\ ret.second = EnvLayoutPath(<<"a">>, <<"s">>, <<"1">>)
    /\ ret.first # ret.second

\* outside these tuples two addresses can meet: the environment ".." leads
\* back to the default-environment address
C30_WitnessMeet ==
    /\ call.fn = "getConfigPath"
    /\ call.first = <<<<"a">>, <<"1">>, <<>>>>
    /\ call.second = <<<<"a">>, <<"1">>, <<".", ".">>>>
    /\ ret.first = ret.second

====
